---- MODULE Spec2Model ----
(***************************************************************************)
(* A model of the read-only SQLite query engine.                           *)
(*                                                                         *)
(* The repository holds two executors over the same file format:           *)
(*   impl = "db"    : db::process_sql / db::process_indices, decoding      *)
(*                    pages with sqlite::Page::from_bytes (src/src/db.rs,  *)
(*                    src/context/sqlite.rs); this is what main.rs runs;   *)
(*   impl = "query" : Query::execute with Database::get_full_table,        *)
(*                    search_index and get_by_row_ids, decoding pages with *)
(*                    page::Page::parse (src/src/query.rs, database.rs).   *)
(* A state holds one database file, one query and the position of the      *)
(* executor that runs it.  Every loop iteration of a traversal is one      *)
(* action.  Pages are held as their cells in cell-pointer-array order, each *)
(* with the offset at which it is stored; strings are sequences of bytes.  *)
(***************************************************************************)
EXTENDS Integers, Sequences, FiniteSets

\* ------------------------------------------------------------------ bounds
\* largest number of rows of the queried table
MaxRows == 3
\* largest number of children an interior table page is built for (a page takes one
\* more when a single child would be left over)
MaxFan == 2

\* u64::MAX, the key of the sentinel cell; TLC's integers are 32 bits wide, so its
\* largest integer stands in for it (every key of the model is far below it)
U64Max == 2147483647

\* ----------------------------------------------------------------- strings
\* the byte code of "|", the separator of the fields of a row
ChrPipe == 124

StrNull == <<110, 117, 108, 108>>

\* decimal digits of a non-negative integer (i64::to_string); 48 is the byte code of "0"
RECURSIVE I64ToString(_)
I64ToString(n) ==
  IF n < 10 THEN <<48 + n>> ELSE I64ToString(n \div 10) \o <<48 + (n % 10)>>

\* the integer a string of decimal digits denotes (the literal of a WHERE clause)
RECURSIVE ParseInt(_)
ParseInt(s) ==
  IF Len(s) = 0 THEN 0
  ELSE 10 * ParseInt(SubSeq(s, 1, Len(s) - 1)) + (s[Len(s)] - 48)

\* byte-wise lexicographic order of two strings (String: Ord)
RECURSIVE StrLt(_, _)
StrLt(a, b) ==
  IF Len(b) = 0 THEN FALSE
  ELSE IF Len(a) = 0 THEN TRUE
  ELSE IF a[1] # b[1] THEN a[1] < b[1]
  ELSE StrLt(Tail(a), Tail(b))

StrLe(a, b) == a = b \/ StrLt(a, b)

\* ------------------------------------------------------------------ values
VNull == [t |-> "Null", n |-> 0, s |-> <<>>]
VInt(n) == [t |-> "Int", n |-> n, s |-> <<>>]
VText(s) == [t |-> "Text", n |-> 0, s |-> s]
VBlob(s) == [t |-> "Blob", n |-> 0, s |-> s]

\* the values a row may store in the filter column
Vals == {VNull, VInt(9), VText(<<57>>), VBlob(<<57>>)}

\* Value::as_text of the sqlite_value module: the text a value is printed as
AsText(v) ==
  CASE v.t = "Null" -> StrNull
    [] v.t = "Int" -> I64ToString(v.n)
    [] OTHER -> v.s

\* impl Display for Value
ValueToString(v) ==
  CASE v.t = "Null" -> StrNull
    [] v.t = "Int" -> I64ToString(v.n)
    [] OTHER -> v.s

\* impl PartialEq for Value
ValueEq(a, b) ==
  CASE a.t = "Null" -> FALSE
    [] a.t = "Int" -> b.t = "Int" /\ a.n = b.n
    [] a.t = "Real" -> b.t = "Real" /\ a.n = b.n
    [] a.t = "Text" -> b.t \in {"Text", "Blob"} /\ a.s = b.s
    [] a.t = "Blob" -> b.t \in {"Text", "Blob"} /\ a.s = b.s

\* impl PartialOrd for Value, as used by `a >= b`
ValueGe(a, b) ==
  CASE a.t = "Null" -> FALSE
    [] a.t = "Int" -> b.t = "Int" /\ a.n >= b.n
    [] a.t = "Real" -> b.t = "Real" /\ a.n >= b.n
    [] a.t = "Text" -> b.t \in {"Text", "Blob"} /\ StrLe(b.s, a.s)
    [] a.t = "Blob" -> b.t \in {"Text", "Blob"} /\ StrLe(b.s, a.s)

\* ------------------------------------------------------- sequence helpers
Max(a, b) == IF a >= b THEN a ELSE b
Min(a, b) == IF a <= b THEN a ELSE b

\* s sorted ascending by the strict order Lt, stable
SortBy(s, Lt(_, _)) ==
  LET rank(i) == Cardinality({j \in 1..Len(s) :
                               Lt(s[j], s[i]) \/ (~Lt(s[i], s[j]) /\ j < i)})
  IN [r \in 1..Len(s) |-> s[CHOOSE i \in 1..Len(s) : rank(i) = r - 1]]

Range(s) == {s[i] : i \in 1..Len(s)}

\* ---------------------------------------------------------- database file
\* The columns of the queried table, CREATE TABLE t (id INTEGER PRIMARY KEY, c, d)
TableColumns == <<"id", "c", "d">>

\* the offset of the i-th cell (in key order) of a page of cnt cells: SQLite fills a
\* page from its end, so rows inserted in key order lie at descending offsets
\* ("desc") and rows inserted in reverse key order at ascending offsets ("asc")
Off(layout, i, cnt) == IF layout = "desc" THEN cnt + 1 - i ELSE i

\* the stored record of row r: the INTEGER PRIMARY KEY column is stored as NULL
TableRecord(r, c) == <<VNull, c, VInt(100 + r)>>

LeafTablePage(rows, lo, hi, layout) ==
  [type |-> "LeafTable", right |-> 0,
   cells |-> [i \in 1..(hi + 1 - lo) |->
                [off |-> Off(layout, i, hi + 1 - lo), child |-> 0, key |-> lo + i - 1,
                 rec |-> TableRecord(lo + i - 1, rows[lo + i - 1])]]]

\* an interior table page over the nodes ch (each [pg, max]): one cell per child but
\* the last, keyed by the largest row id below it; the last child is right-most
InteriorTablePage(ch, layout) ==
  [type |-> "InteriorTable", right |-> ch[Len(ch)].pg,
   cells |-> [i \in 1..(Len(ch) - 1) |->
                [off |-> Off(layout, i, Len(ch) - 1), child |-> ch[i].pg,
                 key |-> ch[i].max, rec |-> <<>>]]]

\* nodes split into runs of fan children (a last run of one joins the run before)
RECURSIVE GroupNodes(_, _)
GroupNodes(nodes, fan) ==
  IF Len(nodes) <= fan + 1 THEN <<nodes>>
  ELSE <<SubSeq(nodes, 1, fan)>> \o GroupNodes(SubSeq(nodes, fan + 1, Len(nodes)), fan)

\* the interior levels above nodes; pgs are the pages built so far, pgs[i] being
\* page i + 1 of the file
RECURSIVE BuildLevels(_, _, _, _)
BuildLevels(nodes, pgs, fan, layout) ==
  IF Len(nodes) = 1 THEN [pages |-> pgs, root |-> nodes[1].pg]
  ELSE LET chunks == GroupNodes(nodes, fan)
           newpages == [ci \in 1..Len(chunks) |-> InteriorTablePage(chunks[ci], layout)]
           newnodes == [ci \in 1..Len(chunks) |->
                          [pg |-> Len(pgs) + 1 + ci,
                           max |-> chunks[ci][Len(chunks[ci])].max]]
       IN BuildLevels(newnodes, pgs \o newpages, fan, layout)

\* the table B-tree of rows (row id i holds rows[i]) with at most cap rows a leaf
BuildTable(rows, cap, fan, layout) ==
  LET n == Len(rows)
      L == IF n = 0 THEN 1 ELSE (n + cap - 1) \div cap
      leaves == [j \in 1..L |->
                   LeafTablePage(rows, (j - 1) * cap + 1, Min(j * cap, n), layout)]
      nodes == [j \in 1..L |-> [pg |-> 1 + j, max |-> Min(j * cap, n)]]
  IN BuildLevels(nodes, leaves, fan, layout)

\* SQLite's order of index keys: NULL, then numbers, then text, then blobs
TypeRank(v) ==
  CASE v.t = "Null" -> 0 [] v.t = "Int" -> 1 [] v.t = "Text" -> 2 [] OTHER -> 3

KeyLt(a, b) ==
  \/ TypeRank(a) < TypeRank(b)
  \/ TypeRank(a) = TypeRank(b) /\ a.t = "Int" /\ a.n < b.n
  \/ TypeRank(a) = TypeRank(b) /\ a.t \in {"Text", "Blob"} /\ StrLt(a.s, b.s)

\* index entries are ordered by key, then by row id
EntryLt(e, f) == KeyLt(e.val, f.val) \/ (e.val = f.val /\ e.rowid < f.rowid)

IndexEntries(rows) == SortBy([i \in 1..Len(rows) |-> [val |-> rows[i], rowid |-> i]], EntryLt)

IndexRecord(e) == <<e.val, VInt(e.rowid)>>

\* entries split into leaves of cap entries with one entry between two leaves kept
\* in the interior page
RECURSIVE IndexChunks(_, _)
IndexChunks(e, cap) ==
  IF Len(e) < cap + 2 THEN [leaves |-> <<e>>, cells |-> <<>>]
  ELSE LET r == IndexChunks(SubSeq(e, cap + 2, Len(e)), cap)
       IN [leaves |-> <<SubSeq(e, 1, cap)>> \o r.leaves, cells |-> <<e[cap + 1]>> \o r.cells]

LeafIndexPage(es, layout) ==
  [type |-> "LeafIndex", right |-> 0,
   cells |-> [i \in 1..Len(es) |->
                [off |-> Off(layout, i, Len(es)), child |-> 0, key |-> 0,
                 rec |-> IndexRecord(es[i])]]]

\* the index B-tree on column c whose first page is page base of the file
BuildIndex(rows, cap, base, layout) ==
  LET ch == IndexChunks(IndexEntries(rows), cap)
      L == Len(ch.leaves)
      leaves == [j \in 1..L |-> LeafIndexPage(ch.leaves[j], layout)]
      root == [type |-> "InteriorIndex", right |-> base + L - 1,
               cells |-> [i \in 1..(L - 1) |->
                            [off |-> Off(layout, i, L - 1), child |-> base + i - 1,
                             key |-> 0, rec |-> IndexRecord(ch.cells[i])]]]
  IN IF L = 1 THEN [pages |-> leaves, root |-> base]
     ELSE [pages |-> leaves \o <<root>>, root |-> base + L]

\* page 1 holds the sqlite_schema rows, kept decoded in the schema field
SchemaPage == [type |-> "LeafTable", right |-> 0, cells |-> <<>>]

\* The database file: table t over rows, and with idx > 0 an index on t(c) whose
\* leaves hold idx entries.  bad > 0 names a page whose type byte is overwritten.
BuildDb(rows, cap, fan, layout, idx, bad) ==
  LET tbl == BuildTable(rows, cap, fan, layout)
      ix == BuildIndex(rows, idx, Len(tbl.pages) + 2, layout)
      all == <<SchemaPage>> \o tbl.pages \o (IF idx > 0 THEN ix.pages ELSE <<>>)
  IN [rows |-> rows,
      pages |-> [p \in 1..Len(all) |->
                   IF p = bad THEN [all[p] EXCEPT !.type = "Invalid"] ELSE all[p]],
      schema |-> <<[type |-> "table", name |-> "t", tbl_name |-> "t",
                    rootpage |-> tbl.root, columns |-> TableColumns]>>
                 \o (IF idx > 0
                     THEN <<[type |-> "index", name |-> "idx_c", tbl_name |-> "t",
                             rootpage |-> ix.root, columns |-> <<"c">>]>>
                     ELSE <<>>)]

\* the file d with one more table: a single leaf page holding rows, and its
\* sqlite_schema row after those of d
AddTable(d, name, rows, layout) ==
  [d EXCEPT !.pages = @ \o <<LeafTablePage(rows, 1, Len(rows), layout)>>,
            !.schema = @ \o <<[type |-> "table", name |-> name, tbl_name |-> name,
                               rootpage |-> Len(d.pages) + 1, columns |-> TableColumns]>>]

\* the file d with one more index, on column c of table tbl whose rows are rows, and
\* its sqlite_schema row after those of d
AddIndex(d, name, tbl, rows, cap, layout) ==
  LET ix == BuildIndex(rows, cap, Len(d.pages) + 1, layout)
  IN [d EXCEPT !.pages = @ \o ix.pages,
               !.schema = @ \o <<[type |-> "index", name |-> name, tbl_name |-> tbl,
                                  rootpage |-> ix.root, columns |-> <<"c">>]>>]

\* ------------------------------------------------------------------- state
VARIABLES
  db,        \* the database file
  query,     \* the query, as the SQL parser hands it over, and the executor run
  pc,        \* the executor's position
  stack,     \* the work list of the running traversal
  row_ids,   \* the index probe's row ids: [some, ids]
  records,   \* filtered_cells (db.rs) / records (query.rs): the leaf cells kept
  result,    \* the rows the executor returns
  outcome,   \* "running", "ok", "err" (an Err value) or "panic"
  errmsg,    \* the error's message: [kind, arg]
  output,    \* the lines written to standard output
  visited,   \* the pages read from the file, in order (on-disk numbers)
  input,     \* the bytes or fields handed to a decoder that is run on its own
  decoded    \* what that decoder returned: [status, ...]

vars == <<db, query, pc, stack, row_ids, records, result, outcome, errmsg, output, visited,
         input, decoded>>

\* the state of a query run, left alone when a decoder is run on its own
runVars == <<db, query, pc, stack, row_ids, records, result, outcome, errmsg, output, visited>>

\* no decoder has been run on its own
NoInput == [kind |-> "none"]
NoDecoded == [status |-> "none"]

NoWhere == [some |-> FALSE, column |-> "", op |-> "=", kind |-> "String", s |-> <<>>]
WhereEq(col, kind, s) == [some |-> TRUE, column |-> col, op |-> "=", kind |-> kind, s |-> s]
NoError == [kind |-> "", arg |-> ""]
NoRowIds == [some |-> FALSE, ids |-> <<>>]

\* ------------------------------------- sqlite.rs: the page decoder of db.rs
CellsByOffsetDesc(cells) == SortBy(cells, LAMBDA a, b : a.off > b.off)

\* Record::from_bytes: a NULL that is the first value becomes Int(row_id)
RecordFromBytes(row_id, rec) ==
  [i \in 1..Len(rec) |-> IF i = 1 /\ rec[i].t = "Null" THEN VInt(row_id) ELSE rec[i]]

\* LeafTableCell::from_bytes
LeafTableCellFromBytes(c) ==
  [row_id |-> c.key, child_page |-> 0, left_ptr |-> 0,
   payload |-> RecordFromBytes(c.key, c.rec)]

\* LeafIndexCell::from_bytes and InteriorIndexCell::from_bytes: the record is decoded
\* with row id 0, its last value is the row id and is taken off the payload
IndexCellFromBytes(c) ==
  LET payload == RecordFromBytes(0, c.rec)
  IN [row_id |-> payload[Len(payload)].n, child_page |-> c.child - 1, left_ptr |-> 0,
      payload |-> SubSeq(payload, 1, Len(payload) - 1)]

\* a mutant of InteriorTableCellFromBytes: the child keeps its on-disk number
InteriorTableCellFromBytesOnDisk(c) ==
  [row_id |-> 0, child_page |-> c.child, left_ptr |-> c.key, payload |-> <<>>]

\* InteriorTableCell::from_bytes
InteriorTableCellFromBytes(c) ==
  [row_id |-> 0, child_page |-> c.child - 1, left_ptr |-> c.key, payload |-> <<>>]

\* a mutant of PageFromBytes: the cells of an interior table page are left in the
\* order they were carved in, the sentinel last
PageFromBytesUnsorted(page) ==
  LET cs == CellsByOffsetDesc(page.cells)
  IN CASE page.type = "LeafTable" ->
            [page_type |-> "LeafTable",
             cells |-> [i \in 1..Len(cs) |-> LeafTableCellFromBytes(cs[i])]]
       [] page.type = "LeafIndex" ->
            [page_type |-> "LeafIndex",
             cells |-> [i \in 1..Len(cs) |-> IndexCellFromBytes(cs[i])]]
       [] page.type = "InteriorTable" ->
            [page_type |-> "InteriorTable",
             cells |-> [i \in 1..Len(cs) |-> InteriorTableCellFromBytes(cs[i])]
                       \o <<[row_id |-> 0, child_page |-> page.right - 1,
                             left_ptr |-> U64Max, payload |-> <<>>]>>]
       [] page.type = "InteriorIndex" ->
            [page_type |-> "InteriorIndex",
             cells |-> [i \in 1..Len(cs) |-> IndexCellFromBytes(cs[i])]
                       \o <<[row_id |-> U64Max, child_page |-> page.right - 1,
                             left_ptr |-> 0, payload |-> <<>>]>>]

\* Page::from_bytes: cells are carved off the page by descending offset; an interior
\* page gets a sentinel cell for its right-most pointer, and the cells of an interior
\* table page are then sorted by key
PageFromBytes(page) ==
  LET cs == CellsByOffsetDesc(page.cells)
  IN CASE page.type = "LeafTable" ->
            [page_type |-> "LeafTable",
             cells |-> [i \in 1..Len(cs) |-> LeafTableCellFromBytes(cs[i])]]
       [] page.type = "LeafIndex" ->
            [page_type |-> "LeafIndex",
             cells |-> [i \in 1..Len(cs) |-> IndexCellFromBytes(cs[i])]]
       [] page.type = "InteriorTable" ->
            [page_type |-> "InteriorTable",
             cells |-> SortBy([i \in 1..Len(cs) |-> InteriorTableCellFromBytes(cs[i])]
                              \o <<[row_id |-> 0, child_page |-> page.right - 1,
                                    left_ptr |-> U64Max, payload |-> <<>>]>>,
                              LAMBDA a, b : a.left_ptr < b.left_ptr)]
       [] page.type = "InteriorIndex" ->
            [page_type |-> "InteriorIndex",
             cells |-> [i \in 1..Len(cs) |-> IndexCellFromBytes(cs[i])]
                       \o <<[row_id |-> U64Max, child_page |-> page.right - 1,
                             left_ptr |-> 0, payload |-> <<>>]>>]

\* the page size of the file's header
PageSize == 512

\* LazyPage::load: the offset in the file the page of index page_number is read at
FileOffset(page_number) == page_number * PageSize

\* the page of the file that starts at offset: the pages lie one after the other from
\* offset 0, the page with on-disk number 1 first
PageAt(offset) == db.pages[(offset \div PageSize) + 1]

\* SQLite::page / LazyPage::load: page index i is read at file offset i * page_size,
\* the on-disk page i + 1; a page of unknown type is an Err value
PageLoads(index) == PageAt(FileOffset(index)).type # "Invalid"
SQLitePage(index) == PageFromBytes(PageAt(FileOffset(index)))

\* ----------------------------------------------- db.rs: process_sql (impl "db")
\* the position of a column in the table definition, 0 when it has none
ColumnIndex(columns, name) ==
  IF \E i \in 1..Len(columns) : columns[i] = name
  THEN CHOOSE i \in 1..Len(columns) : columns[i] = name
  ELSE 0

\* fields joined by "|"
RECURSIVE JoinPipe(_)
JoinPipe(fields) ==
  IF Len(fields) = 0 THEN <<>>
  ELSE IF Len(fields) = 1 THEN fields[1]
  ELSE fields[1] \o <<ChrPipe>> \o JoinPipe(Tail(fields))

\* get_table_info's find_map: the first schema row whose table name is the queried one
TableDefinitions(name) == SelectSeq(db.schema, LAMBDA o : o.tbl_name = name)

\* the schema's root page numbers are turned into the page indices SQLite::page takes
RootIndex(o) == o.rootpage - 1

\* process_indices: the indices of the queried table on the filter column
RelevantIndices(q) ==
  SelectSeq(db.schema,
            LAMBDA o : /\ o.type = "index"
                       /\ o.tbl_name = q.table
                       /\ \E i \in 1..Len(o.columns) : o.columns[i] = q.where.column)

\* the comparison of process_indices at an interior index cell: the cell's child is
\* next when the cell is the sentinel or the literal is <= the key's text, as strings
IsNext(w, cell) ==
  Len(cell.payload) = 0 \/ StrLe(w.s, AsText(cell.payload[1]))

\* the filter of process_indices at a leaf index cell and of process_sql at a leaf
\* table cell: the literal's text equals the value's text
TextMatches(w, v) == w.s = AsText(v)

\* the pages process_indices pushes at an interior index page
IndexNextFrames(page, w) ==
  LET nx == SelectSeq(page.cells, LAMBDA c : IsNext(w, c))
  IN [i \in 1..Len(nx) |-> [page |-> nx[i].child_page, min |-> 0, max |-> 0]]

\* the row ids process_indices takes from a leaf index page
IndexLeafRowIds(page, w) ==
  LET m == SelectSeq(page.cells, LAMBDA c : TextMatches(w, c.payload[1]))
  IN [i \in 1..Len(m) |-> m[i].row_id]

\* process_sql at an interior table page with Some(row_ids): the filter_map over the
\* cells from the i-th on, ids being what `retain` has left
RECURSIVE InteriorTableFrames(_, _, _)
InteriorTableFrames(cells, ids, i) ==
  IF i > Len(cells) THEN <<>>
  ELSE IF Len(ids) = 0 THEN InteriorTableFrames(cells, ids, i + 1)
  ELSE IF \E k \in 1..Len(ids) : ids[k] <= cells[i].left_ptr
  THEN <<[page |-> cells[i].child_page, min |-> ids[1], max |-> cells[i].left_ptr]>>
       \o InteriorTableFrames(cells, SelectSeq(ids, LAMBDA id : id > cells[i].left_ptr),
                              i + 1)
  ELSE InteriorTableFrames(cells, ids, i + 1)

\* the frames process_sql pushes at an interior table page taken as frame f
ScanFrames(page, f, rids) ==
  IF rids.some
  THEN InteriorTableFrames(page.cells,
                           SelectSeq(rids.ids, LAMBDA id : id <= f.max /\ id >= f.min), 1)
  ELSE [i \in 1..Len(page.cells) |->
          [page |-> page.cells[i].child_page, min |-> f.min, max |-> f.max]]

\* the cells of a leaf table page process_sql keeps
LeafKept(page, q) ==
  IF ~q.where.some THEN page.cells
  ELSE SelectSeq(page.cells,
                 LAMBDA c : TextMatches(q.where,
                                        c.payload[ColumnIndex(TableColumns, q.where.column)]))

\* a mutant of WrittenByLeaf: the rows of a leaf are printed as they are found
WrittenByLeafStreaming(out, kept) ==
  out \o [i \in 1..Len(kept) |-> JoinPipe([j \in 1..Len(kept[i].payload) |->
                                             AsText(kept[i].payload[j])])]

\* what the leaf arm of process_sql has written to standard output after it kept
\* `kept`: it only pushes to filtered_cells
WrittenByLeaf(out, kept) == out

\* the last stage of process_sql: the text of the rows kept
RowsText(q, kept) ==
  LET known == SelectSeq(q.select.cols, LAMBDA c : ColumnIndex(TableColumns, c) > 0)
  IN [i \in 1..Len(kept) |->
        JoinPipe([j \in 1..Len(known) |->
                    AsText(kept[i].payload[ColumnIndex(TableColumns, known[j])])])]

Fail(kind, arg) ==
  /\ pc' = "done"
  /\ outcome' = "err"
  /\ errmsg' = [kind |-> kind, arg |-> arg]

Panic(kind) ==
  /\ pc' = "done"
  /\ outcome' = "panic"
  /\ errmsg' = [kind |-> kind, arg |-> ""]

\* process_sql, line 13: sql::parse_select_sql
DbParse ==
  /\ query.impl = "db" /\ pc = "parse"
  /\ IF query.parse_ok
     THEN pc' = "table_info" /\ UNCHANGED <<outcome, errmsg>>
     ELSE Fail("SqlParseError", "")
  /\ UNCHANGED <<input, decoded, db, query, stack, row_ids, records, result, output, visited>>

\* get_table_info: page 0 is read in a session of its own and searched for the table
DbGetTableInfo ==
  /\ query.impl = "db" /\ pc = "table_info"
  /\ visited' = Append(visited, 1)
  /\ IF Len(TableDefinitions(query.table)) = 0
     THEN Fail("Table not found", query.table)
     ELSE pc' = "indices" /\ UNCHANGED <<outcome, errmsg>>
  /\ UNCHANGED <<input, decoded, db, query, stack, row_ids, records, result, output>>

\* process_indices up to its loop: the choice of the index
DbProcessIndices ==
  /\ query.impl = "db" /\ pc = "indices"
  /\ visited' = Append(visited, 1)
  /\ LET rel == RelevantIndices(query) IN
     IF query.where.some /\ Len(rel) > 1
     THEN Fail("Multiple indices", query.where.column) /\ UNCHANGED <<stack, row_ids>>
     ELSE IF query.where.some /\ Len(rel) = 1
     THEN /\ pc' = "index"
          /\ stack' = <<[page |-> RootIndex(rel[1]), min |-> 0, max |-> 0]>>
          /\ row_ids' = [some |-> TRUE, ids |-> <<>>]
          /\ UNCHANGED <<outcome, errmsg>>
     ELSE /\ pc' = "scan"
          /\ stack' = <<[page |-> RootIndex(TableDefinitions(query.table)[1]),
                         min |-> 0, max |-> U64Max]>>
          /\ row_ids' = NoRowIds
          /\ UNCHANGED <<outcome, errmsg>>
  /\ UNCHANGED <<input, decoded, db, query, records, result, output>>

\* one iteration of the loop of process_indices
DbIndexStep ==
  /\ query.impl = "db" /\ pc = "index" /\ Len(stack) > 0
  /\ LET ix == stack[1].page
         page == SQLitePage(ix)
     IN /\ visited' = Append(visited, ix + 1)
        /\ IF ~PageLoads(ix)
           THEN Fail("Invalid page type", "") /\ UNCHANGED <<stack, row_ids>>
           ELSE IF page.page_type \in {"InteriorTable", "LeafTable"}
           THEN Panic("Unexpected table page when processing indices")
                /\ UNCHANGED <<stack, row_ids>>
           ELSE IF page.page_type = "InteriorIndex"
           THEN IF query.where.op # "="
                THEN Panic("Unsupported where_clause filter") /\ UNCHANGED <<stack, row_ids>>
                ELSE /\ stack' = Tail(stack) \o IndexNextFrames(page, query.where)
                     /\ UNCHANGED <<row_ids, pc, outcome, errmsg>>
           ELSE IF query.where.op # "="
                THEN Fail("Unsupported filter", "") /\ UNCHANGED <<stack, row_ids>>
                ELSE /\ stack' = Tail(stack)
                     /\ row_ids' = [row_ids EXCEPT !.ids = @ \o IndexLeafRowIds(page, query.where)]
                     /\ UNCHANGED <<pc, outcome, errmsg>>
  /\ UNCHANGED <<input, decoded, db, query, records, result, output>>

\* the end of process_indices: the row ids are sorted and the table scan starts
DbIndexDone ==
  /\ query.impl = "db" /\ pc = "index" /\ Len(stack) = 0
  /\ row_ids' = [row_ids EXCEPT !.ids = SortBy(@, LAMBDA a, b : a < b)]
  /\ stack' = <<[page |-> RootIndex(TableDefinitions(query.table)[1]),
                 min |-> 0, max |-> U64Max]>>
  /\ pc' = "scan"
  /\ UNCHANGED <<input, decoded, db, query, records, result, outcome, errmsg, output, visited>>

\* one iteration of the loop of process_sql (the loop of line 26; line 25 repeats the
\* loop header and has no closing brace in the file)
DbScanStep ==
  /\ query.impl = "db" /\ pc = "scan" /\ Len(stack) > 0
  /\ LET f == stack[1]
         page == SQLitePage(f.page)
     IN /\ visited' = Append(visited, f.page + 1)
        /\ IF ~PageLoads(f.page)
           THEN Fail("Invalid page type", "") /\ UNCHANGED <<stack, records, output>>
           ELSE IF page.page_type \in {"InteriorIndex", "LeafIndex"}
           THEN Panic("not yet implemented") /\ UNCHANGED <<stack, records, output>>
           ELSE IF page.page_type = "InteriorTable"
           THEN /\ stack' = Tail(stack) \o ScanFrames(page, f, row_ids)
                /\ UNCHANGED <<records, output, pc, outcome, errmsg>>
           ELSE IF query.where.some /\ query.where.op # "="
           THEN Fail("Unsupported filter in query", "") /\ UNCHANGED <<stack, records, output>>
           ELSE IF query.where.some /\ ColumnIndex(TableColumns, query.where.column) = 0
           THEN Fail("Column not found", query.where.column)
                /\ UNCHANGED <<stack, records, output>>
           ELSE /\ stack' = Tail(stack)
                /\ records' = records \o LeafKept(page, query)
                /\ output' = WrittenByLeaf(output, LeafKept(page, query))
                /\ UNCHANGED <<pc, outcome, errmsg>>
  /\ UNCHANGED <<input, decoded, db, query, row_ids, result>>

\* process_sql after its loop: COUNT or the projection
DbFinish ==
  /\ query.impl = "db" /\ pc = "scan" /\ Len(stack) = 0
  /\ IF query.select.fn = "COUNT"
     THEN /\ result' = <<I64ToString(Len(records))>>
          /\ pc' = "print" /\ UNCHANGED <<outcome, errmsg>>
     ELSE IF query.select.fn = ""
     THEN /\ result' = RowsText(query, records)
          /\ pc' = "print" /\ UNCHANGED <<outcome, errmsg>>
     ELSE Fail("Unsupported expression", "") /\ UNCHANGED result
  /\ UNCHANGED <<input, decoded, db, query, stack, row_ids, records, output, visited>>

\* main: process_sql returned Ok and its text is printed
MainPrint ==
  /\ query.impl = "db" /\ pc = "print"
  /\ output' = output \o result
  /\ outcome' = "ok"
  /\ pc' = "done"
  /\ UNCHANGED <<input, decoded, db, query, stack, row_ids, records, result, errmsg, visited>>

\* ------------------------------ page.rs, cell.rs, record.rs: the decoder of query.rs
CellsByOffsetAsc(cells) == SortBy(cells, LAMBDA a, b : a.off < b.off)

Builds == {"debug", "release"}

\* the largest payload a cell of type ty keeps in its page (x of Cell::parse)
MaxLocal(ty, usable_page_size) ==
  IF ty = "LeafTable" THEN usable_page_size - 35
  ELSE (((usable_page_size - 12) * 64) \div 255) - 23

\* the smallest part of an overflowing payload kept in the page (m of Cell::parse)
MinLocal(usable_page_size) == (((usable_page_size - 12) * 32) \div 255) - 23

\* the overflow check of Cell::parse for a declared payload size: usize arithmetic,
\* so payload_size - m below zero panics in a build with overflow checks and wraps
\* without them (k is then used by the overflow branch only); an overflowing payload
\* reaches todo!
CellOverflowCheck(ty, usable_page_size, payload_size, build) ==
  IF payload_size < MinLocal(usable_page_size) /\ build = "debug"
  THEN [status |-> "panic", by |-> "Cell::parse", msg |-> "attempt to subtract with overflow",
        overflow |-> FALSE]
  ELSE IF payload_size > MaxLocal(ty, usable_page_size)
  THEN [status |-> "panic", by |-> "Cell::parse", msg |-> "not yet implemented: overflow",
        overflow |-> TRUE]
  ELSE [status |-> "ok", by |-> "Cell::parse", msg |-> "", overflow |-> FALSE]

\* the page size of the files of the model: 512 bytes, the smallest that Header::parse
\* accepts, none of them reserved
UsablePageSize == 512

\* the bytes of the payload of a record of the model: a header of one byte for its own
\* size and one for each serial type, then the values (an integer below 128 takes
\* one byte, a text or a blob its length)
RECURSIVE PayloadSize(_)
PayloadSize(rec) ==
  IF Len(rec) = 0 THEN 1
  ELSE PayloadSize(Tail(rec)) + 1
       + (CASE rec[1].t = "Null" -> 0
            [] rec[1].t = "Int" -> 1
            [] OTHER -> Len(rec[1].s))

\* Page::parse reaches a panic in Cell::parse: the overflow check of a cell of the page
\* panics
CellParsePanics(page, build) ==
  /\ page.type \in {"LeafTable", "LeafIndex", "InteriorIndex"}
  /\ \E i \in 1..Len(page.cells) :
       CellOverflowCheck(page.type, UsablePageSize, PayloadSize(page.cells[i].rec),
                         build).status = "panic"

\* Record::parse: the values of the columns whose 0-based position is in
\* column_indices; a NULL of a table record becomes Integer(row_id) when the column
\* is named "id"
RECURSIVE RecordParseFrom(_, _, _, _, _, _)
RecordParseFrom(rec, column_names, column_indices, is_table, row_id, i) ==
  IF i >= Len(rec) THEN <<>>
  ELSE LET to_include == \E k \in 1..Len(column_indices) : column_indices[k] = i
           is_row_id_alias ==
             to_include /\ column_names[CHOOSE k \in 1..Len(column_indices) :
                                          column_indices[k] = i] = "id"
           value == IF rec[i + 1].t = "Null" /\ is_table /\ is_row_id_alias
                    THEN VInt(row_id) ELSE rec[i + 1]
       IN (IF to_include THEN <<value>> ELSE <<>>)
          \o RecordParseFrom(rec, column_names, column_indices, is_table, row_id, i + 1)

RecordParse(rec, column_names, column_indices, is_table, row_id) ==
  RecordParseFrom(rec, column_names, column_indices, is_table, row_id, 0)

\* Cell::parse; row_id is the varint Record::parse reads ahead of a table record
CellParse(c, ty, column_names, column_indices) ==
  CASE ty = "LeafTable" ->
         [row_id |-> c.key, child_page |-> 0, left_ptr |-> 0,
          payload |-> RecordParse(c.rec, column_names, column_indices, TRUE, c.key)]
    [] ty = "InteriorTable" ->
         [row_id |-> 0, child_page |-> c.child, left_ptr |-> c.key, payload |-> <<>>]
    [] ty = "LeafIndex" ->
         [row_id |-> 0, child_page |-> 0, left_ptr |-> 0,
          payload |-> RecordParse(c.rec, column_names, column_indices, FALSE, 0)]
    [] ty = "InteriorIndex" ->
         [row_id |-> 0, child_page |-> c.child, left_ptr |-> 0,
          payload |-> RecordParse(c.rec, column_names, column_indices, FALSE, 0)]

\* Page::parse: the cells in ascending order of their offsets, and the right-most
\* pointer of an interior page (0 for None)
PageParse(page, column_names, column_indices) ==
  LET cs == CellsByOffsetAsc(page.cells)
  IN [page_type |-> page.type,
      cells |-> [i \in 1..Len(cs) |-> CellParse(cs[i], page.type, column_names, column_indices)],
      rightmost_pointer |-> page.right]

Pop(st) == SubSeq(st, 1, Len(st) - 1)
Top(st) == st[Len(st)]
PageFrame(p) == [page |-> p, min |-> 0, max |-> 0]

\* ------------------------------------------- query.rs: Query::execute (impl "query")
\* Schema::table_root_page's find: the tables of that name
TablesNamed(name) == SelectSeq(db.schema, LAMBDA o : o.type = "table" /\ o.name = name)

\* the select columns of the parsed query: COUNT is Column::Count, anything else a name
IsCountQuery(q) == q.select.fn = "COUNT"
SelectNames(q) == IF q.select.fn = "" THEN q.select.cols ELSE <<q.select.fn>>

\* select_column_names: "id" for COUNT, and the filter column when it is not selected
SelectColumnNames(q) ==
  LET sel == IF IsCountQuery(q) THEN <<"id">> ELSE SelectNames(q)
  IN IF q.where.some /\ q.where.column \notin Range(sel)
     THEN Append(sel, q.where.column) ELSE sel

\* column_indices and column_names: the table's columns that are selected, in the
\* table's order
ColumnIndices(q) ==
  LET cols == TablesNamed(q.table)[1].columns
  IN SelectSeq([i \in 1..Len(cols) |-> i - 1],
               LAMBDA i : cols[i + 1] \in Range(SelectColumnNames(q)))

ColumnNames(q) ==
  LET cols == TablesNamed(q.table)[1].columns
      ci == ColumnIndices(q)
  IN [k \in 1..Len(ci) |-> cols[ci[k] + 1]]

\* the index Query::execute probes: the last index of the schema on a column of the
\* filter's name
IndicesOn(column) ==
  SelectSeq(db.schema, LAMBDA o : o.type = "index" /\ o.columns[1] = column)

\* the key of the filter: a quoted literal is Value::Text
FilterKey(q) == VText(q.where.s)

\* a mutant of FullTablePushes: the right-most pointer is not followed
FullTablePushesNoRight(page) ==
  LET inner == SelectSeq(page.cells, LAMBDA c : page.page_type = "InteriorTable")
  IN [i \in 1..Len(inner) |-> PageFrame(inner[i].child_page)]

\* get_full_table: the pages pushed for a page, the right-most pointer first
FullTablePushes(page) ==
  LET inner == SelectSeq(page.cells, LAMBDA c : page.page_type = "InteriorTable")
  IN (IF page.rightmost_pointer # 0 THEN <<PageFrame(page.rightmost_pointer)>> ELSE <<>>)
     \o [i \in 1..Len(inner) |-> PageFrame(inner[i].child_page)]

\* search_index: the pages pushed for an index page
SearchIndexPushes(page, key) ==
  LET down == SelectSeq(page.cells,
                        LAMBDA c : page.page_type = "InteriorIndex" /\ ValueGe(c.payload[1], key))
  IN (IF page.rightmost_pointer # 0 THEN <<PageFrame(page.rightmost_pointer)>> ELSE <<>>)
     \o [i \in 1..Len(down) |-> PageFrame(down[i].child_page)]

\* search_index: the row ids taken from the cells of an index page, leaf or interior
SearchIndexHits(page, key) ==
  LET hit == SelectSeq(page.cells, LAMBDA c : ValueEq(c.payload[1], key))
  IN [i \in 1..Len(hit) |-> hit[i].payload[2].n]

\* get_by_row_ids: the pages pushed for a table page
ByRowIdsPushes(page, ids) ==
  LET down == SelectSeq(page.cells,
                        LAMBDA c : page.page_type = "InteriorTable"
                                   /\ \E k \in 1..Len(ids) : ids[k] < c.left_ptr)
  IN (IF page.rightmost_pointer # 0 THEN <<PageFrame(page.rightmost_pointer)>> ELSE <<>>)
     \o [i \in 1..Len(down) |-> PageFrame(down[i].child_page)]

\* get_by_row_ids: the records kept from a leaf page
ByRowIdsKept(page, ids, id_column_index) ==
  SelectSeq(page.cells,
            LAMBDA c : page.page_type = "LeafTable"
                       /\ \E k \in 1..Len(ids) : ids[k] = c.payload[id_column_index].n)

\* Query::execute's last loop: the records that pass the filter, which is applied
\* only after a full scan
PassingRecords(q, recs, need_to_filter) ==
  IF need_to_filter /\ q.where.some
  THEN SelectSeq(recs,
                 LAMBDA r : ValueEq(r.payload[ColumnIndex(ColumnNames(q), q.where.column)],
                                    FilterKey(q)))
  ELSE recs

\* the rows of Query::execute's last loop
ExecuteRows(q, recs, need_to_filter) ==
  LET names == ColumnNames(q)
      passing == PassingRecords(q, recs, need_to_filter)
      sel == SelectNames(q)
  IN IF IsCountQuery(q) THEN <<<<I64ToString(Len(passing))>>>>
     ELSE [i \in 1..Len(passing) |->
             [j \in 1..Len(sel) |->
                ValueToString(passing[i].payload[ColumnIndex(names, sel[j])])]]

\* Query::parse
QParse ==
  /\ query.impl = "query" /\ pc = "parse"
  /\ IF ~query.parse_ok
     THEN Fail("unsupported or invalid query type", "")
     ELSE IF query.where.some /\ query.where.op # "="
     THEN Panic("assertion failed")
     ELSE IF query.where.some /\ query.where.kind = "Number"
     THEN Panic("not yet implemented")
     ELSE pc' = "plan" /\ UNCHANGED <<outcome, errmsg>>
  /\ UNCHANGED <<input, decoded, db, query, stack, row_ids, records, result, output, visited>>

\* Query::execute up to the traversal it chooses
QPlan ==
  /\ query.impl = "query" /\ pc = "plan"
  /\ IF Len(TablesNamed(query.table)) = 0
     THEN Panic("table not found") /\ UNCHANGED <<stack, row_ids>>
     ELSE IF query.where.some /\ Len(IndicesOn(query.where.column)) > 0
     THEN /\ pc' = "search"
          /\ stack' = <<PageFrame(Top(IndicesOn(query.where.column)).rootpage)>>
          /\ row_ids' = [some |-> TRUE, ids |-> <<>>]
          /\ UNCHANGED <<outcome, errmsg>>
     ELSE /\ pc' = "full"
          /\ stack' = <<PageFrame(TablesNamed(query.table)[1].rootpage)>>
          /\ row_ids' = NoRowIds
          /\ UNCHANGED <<outcome, errmsg>>
  /\ UNCHANGED <<input, decoded, db, query, records, result, output, visited>>

\* one iteration of the loop of Database::search_index
QSearchIndexStep ==
  /\ query.impl = "query" /\ pc = "search" /\ Len(stack) > 0
  /\ LET p == Top(stack).page
         page == PageParse(db.pages[p], <<query.where.column, "row_id">>, <<0, 1>>)
     IN /\ visited' = Append(visited, p)
        /\ IF db.pages[p].type = "Invalid"
           THEN Panic("failed to parse page") /\ UNCHANGED <<stack, row_ids>>
           ELSE IF CellParsePanics(db.pages[p], query.build)
           THEN Panic("attempt to subtract with overflow") /\ UNCHANGED <<stack, row_ids>>
           ELSE IF page.page_type \notin {"InteriorIndex", "LeafIndex"}
           THEN Panic("unreachable") /\ UNCHANGED <<stack, row_ids>>
           ELSE /\ stack' = Pop(stack) \o SearchIndexPushes(page, FilterKey(query))
                /\ row_ids' = [row_ids EXCEPT !.ids = @ \o SearchIndexHits(page, FilterKey(query))]
                /\ UNCHANGED <<pc, outcome, errmsg>>
  /\ UNCHANGED <<input, decoded, db, query, records, result, output>>

\* search_index returns its row ids and get_by_row_ids starts at the table's root
QSearchIndexDone ==
  /\ query.impl = "query" /\ pc = "search" /\ Len(stack) = 0
  /\ pc' = "by_row_ids"
  /\ stack' = <<PageFrame(TablesNamed(query.table)[1].rootpage)>>
  /\ UNCHANGED <<input, decoded, db, query, row_ids, records, result, outcome, errmsg, output, visited>>

\* one iteration of the loop of Database::get_by_row_ids
QGetByRowIdsStep ==
  /\ query.impl = "query" /\ pc = "by_row_ids" /\ Len(stack) > 0
  /\ LET p == Top(stack).page
         page == PageParse(db.pages[p], ColumnNames(query), ColumnIndices(query))
     IN /\ visited' = Append(visited, p)
        /\ IF db.pages[p].type = "Invalid"
           THEN Panic("failed to parse page") /\ UNCHANGED <<stack, records>>
           ELSE IF CellParsePanics(db.pages[p], query.build)
           THEN Panic("attempt to subtract with overflow") /\ UNCHANGED <<stack, records>>
           ELSE IF ColumnIndex(ColumnNames(query), "id") = 0
           THEN Panic("called Option::unwrap() on a None value")
                /\ UNCHANGED <<stack, records>>
           ELSE IF page.page_type \notin {"InteriorTable", "LeafTable"}
           THEN Panic("unreachable") /\ UNCHANGED <<stack, records>>
           ELSE /\ stack' = Pop(stack) \o ByRowIdsPushes(page, row_ids.ids)
                /\ records' = records \o ByRowIdsKept(page, row_ids.ids,
                                                      ColumnIndex(ColumnNames(query), "id"))
                /\ UNCHANGED <<pc, outcome, errmsg>>
  /\ UNCHANGED <<input, decoded, db, query, row_ids, result, output>>

\* one iteration of the loop of Database::get_full_table
QGetFullTableStep ==
  /\ query.impl = "query" /\ pc = "full" /\ Len(stack) > 0
  /\ LET p == Top(stack).page
         page == PageParse(db.pages[p], ColumnNames(query), ColumnIndices(query))
     IN /\ visited' = Append(visited, p)
        /\ IF db.pages[p].type = "Invalid"
           THEN Panic("failed to parse page") /\ UNCHANGED <<stack, records>>
           ELSE IF CellParsePanics(db.pages[p], query.build)
           THEN Panic("attempt to subtract with overflow") /\ UNCHANGED <<stack, records>>
           ELSE IF page.page_type \notin {"InteriorTable", "LeafTable"}
           THEN Panic("unreachable") /\ UNCHANGED <<stack, records>>
           ELSE /\ stack' = Pop(stack) \o FullTablePushes(page)
                /\ records' = records \o SelectSeq(page.cells,
                                                   LAMBDA c : page.page_type = "LeafTable")
                /\ UNCHANGED <<pc, outcome, errmsg>>
  /\ UNCHANGED <<input, decoded, db, query, row_ids, result, output>>

\* Query::execute after the traversal: the filter, the count or the projection.  An
\* unwrap of a column that the table does not have panics at the first record that
\* reaches it
QExecuteRows ==
  /\ query.impl = "query" /\ pc \in {"by_row_ids", "full"} /\ Len(stack) = 0
  /\ LET need_to_filter == pc = "full"
         names == ColumnNames(query)
         rows == ExecuteRows(query, records, need_to_filter)
     IN IF \/ need_to_filter /\ query.where.some /\ Len(records) > 0
              /\ ColumnIndex(names, query.where.column) = 0
           \/ ~IsCountQuery(query)
              /\ Len(PassingRecords(query, records, need_to_filter)) > 0
              /\ \E j \in 1..Len(SelectNames(query)) :
                   ColumnIndex(names, SelectNames(query)[j]) = 0
        THEN Panic("called Option::unwrap() on a None value") /\ UNCHANGED result
        ELSE /\ result' = rows
             /\ pc' = "done"
             /\ outcome' = "ok"
             /\ UNCHANGED errmsg
  /\ UNCHANGED <<input, decoded, db, query, stack, row_ids, records, output, visited>>

\* ------------------------------------------------------------ specification
Impls == {"db", "query"}
Layouts == {"desc", "asc"}

SelCount == [fn |-> "COUNT", cols |-> <<>>]
SelColumns(cols) == [fn |-> "", cols |-> cols]
SelFunction(name) == [fn |-> name, cols |-> <<>>]

Selects == {SelCount, SelColumns(<<"id", "c">>), SelColumns(<<"d">>)}

\* WHERE c = 9, WHERE c = 0, WHERE c = '9', or no WHERE clause
Wheres ==
  {NoWhere, WhereEq("c", "Number", <<57>>), WhereEq("c", "Number", <<48>>),
   WhereEq("c", "String", <<57>>)}

Start(d, q) ==
  /\ db = d
  /\ query = q
  /\ pc = "parse"
  /\ stack = <<>>
  /\ row_ids = NoRowIds
  /\ records = <<>>
  /\ result = <<>>
  /\ outcome = "running"
  /\ errmsg = NoError
  /\ output = <<>>
  /\ visited = <<>>
  /\ input = NoInput
  /\ decoded = NoDecoded

\* the builds a run of the executor is checked under: the decoder of query.rs has
\* arithmetic that differs between the build profiles, that of db.rs has none on the
\* files of the model
BuildsOf(impl) == IF impl = "query" THEN Builds ELSE {"release"}

\* a well-formed database and a query of the dialect on its table
InitQuery ==
  \E n \in 0..MaxRows :
    \E rows \in [1..n -> Vals], cap \in 1..Max(1, n), fan \in 2..MaxFan,
       layout \in Layouts, idx \in 0..Max(1, n - 1),
       impl \in Impls, sel \in Selects, w \in Wheres :
      \E build \in BuildsOf(impl) :
        Start(BuildDb(rows, cap, fan, layout, idx, 0),
              [impl |-> impl, build |-> build, parse_ok |-> TRUE, table |-> "t",
               select |-> sel, where |-> w])

\* the rows of the databases the failing runs start from
ErrRows == <<VInt(9), VText(<<57>>), VInt(9)>>

\* queries that fail (no such table, no such column, an operator or a function the
\* executor does not plan, text that does not parse) and files with a damaged page
InitFailing ==
  \E idx \in 0..1, bad \in 0..(2 * Len(ErrRows) + 2),
     impl \in Impls, parse_ok \in BOOLEAN, table \in {"t", "x"},
     sel \in Selects \cup {SelFunction("MAX")},
     w \in {NoWhere, WhereEq("c", "String", <<57>>), WhereEq("zz", "String", <<57>>),
            [WhereEq("c", "String", <<57>>) EXCEPT !.op = "<"]} :
    \E build \in BuildsOf(impl) :
      Start(BuildDb(ErrRows, 1, 2, "desc", idx, bad),
            [impl |-> impl, build |-> build, parse_ok |-> parse_ok, table |-> table,
             select |-> sel, where |-> w])

\* column lists that are not in the table's order, repeat a column, or name a column
\* the table does not have
InitProjection ==
  \E idx \in 0..1, impl \in Impls,
     cols \in {<<"d", "id">>, <<"c", "d", "c">>, <<"zz", "c">>, <<"c", "zz">>},
     w \in {NoWhere, WhereEq("c", "String", <<57>>)} :
    \E build \in BuildsOf(impl) :
      Start(BuildDb(ErrRows, 2, 2, "desc", idx, 0),
            [impl |-> impl, build |-> build, parse_ok |-> TRUE, table |-> "t",
             select |-> SelColumns(cols), where |-> w])

\* tables whose indexed column holds the integers 9 and 10, with an index whose root
\* is an interior page, probed for one of the two integers
InitIntegerKeys ==
  \E rows \in {<<VInt(9), VInt(10), VInt(10)>>, <<VInt(10), VInt(9), VInt(10)>>,
               <<VInt(9), VInt(9), VInt(10)>>, <<VInt(10), VInt(10), VInt(10)>>},
     layout \in Layouts, impl \in Impls, sel \in {SelCount, SelColumns(<<"id", "c">>)},
     w \in {WhereEq("c", "Number", <<57>>), WhereEq("c", "Number", <<49, 48>>)} :
    \E build \in BuildsOf(impl) :
      Start(BuildDb(rows, 2, 2, layout, 1, 0),
            [impl |-> impl, build |-> build, parse_ok |-> TRUE, table |-> "t",
             select |-> sel, where |-> w])

\* the rows of the second table of the files with more than one table
OtherRows == <<VText(<<57>>), VText(<<57>>), VText(<<57>>)>>

\* the files whose schema holds more than table t and one index: a second table u
\* with an index on its column c, before or after the index on t(c) or without one,
\* and a table t with two indexes on c
Schemas(layout) ==
  LET t0 == BuildDb(ErrRows, 2, 2, layout, 0, 0)
      t1 == BuildDb(ErrRows, 2, 2, layout, 1, 0)
      u(d) == AddIndex(AddTable(d, "u", OtherRows, layout), "idx_u_c", "u", OtherRows, 2, layout)
  IN {u(t0), u(t1), AddIndex(u(t0), "idx_c", "t", ErrRows, 1, layout),
      AddIndex(t1, "idx_c2", "t", ErrRows, 2, layout)}

\* queries on table t of a file whose schema holds several tables or indexes
InitSchemas ==
  \E layout \in Layouts, impl \in Impls, sel \in {SelCount, SelColumns(<<"id", "c">>)},
     w \in {NoWhere, WhereEq("c", "String", <<57>>), WhereEq("d", "String", <<57>>)} :
    \E d \in Schemas(layout), build \in BuildsOf(impl) :
      Start(d, [impl |-> impl, build |-> build, parse_ok |-> TRUE, table |-> "t",
                select |-> sel, where |-> w])

Init == InitQuery \/ InitFailing \/ InitProjection \/ InitIntegerKeys \/ InitSchemas

\* the file d with the right-most pointer of the root of table t set to the child of
\* the root's first cell: the leaf has two parents and the page graph has no cycle
SharedChild(d) ==
  LET r == d.schema[1].rootpage
  IN [d EXCEPT !.pages[r].right = d.pages[r].cells[1].child]

\* queries on a table whose root refers to one leaf twice
InitSharedChild ==
  \E layout \in Layouts, idx \in 0..1, impl \in Impls,
     sel \in {SelCount, SelColumns(<<"id", "c">>)},
     w \in {NoWhere, WhereEq("c", "String", <<57>>)} :
    \E build \in BuildsOf(impl) :
      Start(SharedChild(BuildDb(ErrRows, 2, 2, layout, idx, 0)),
            [impl |-> impl, build |-> build, parse_ok |-> TRUE, table |-> "t",
             select |-> sel, where |-> w])

Next ==
  \/ DbParse
  \/ DbGetTableInfo
  \/ DbProcessIndices
  \/ DbIndexStep
  \/ DbIndexDone
  \/ DbScanStep
  \/ DbFinish
  \/ MainPrint
  \/ QParse
  \/ QPlan
  \/ QSearchIndexStep
  \/ QSearchIndexDone
  \/ QGetByRowIdsStep
  \/ QGetFullTableStep
  \/ QExecuteRows

Spec == Init /\ [][Next]_vars

\* The runs on files whose page graph has no cycle, trees and a graph with a shared
\* child.  The program is one thread that runs until it returns or panics: a step
\* that can be taken is taken.
InitLive == InitSchemas \/ InitSharedChild
SpecLive == InitLive /\ [][Next]_vars /\ WF_vars(Next)

\* ------------------------------------------------- the traversals run to their end
\* the loop of process_sql without row ids, from the work list st to its end: the
\* leaf cells it keeps, in order
RECURSIVE DbScanAll(_, _)
DbScanAll(st, q) ==
  IF Len(st) = 0 THEN <<>>
  ELSE LET f == st[1]
           page == SQLitePage(f.page)
       IN IF page.page_type = "InteriorTable"
          THEN DbScanAll(Tail(st) \o ScanFrames(page, f, NoRowIds), q)
          ELSE LeafKept(page, q) \o DbScanAll(Tail(st), q)

\* the loop of get_full_table from the work list st to its end
RECURSIVE QFullAll(_, _)
QFullAll(st, q) ==
  IF Len(st) = 0 THEN <<>>
  ELSE LET page == PageParse(db.pages[Top(st).page], ColumnNames(q), ColumnIndices(q))
       IN SelectSeq(page.cells, LAMBDA c : page.page_type = "LeafTable")
          \o QFullAll(Pop(st) \o FullTablePushes(page), q)

\* the rows the scan path gives for the query of this run: the full table scan with
\* the filter applied
ScanPathRows ==
  IF query.impl = "db"
  THEN DbScanAll(<<[page |-> RootIndex(TableDefinitions(query.table)[1]),
                    min |-> 0, max |-> U64Max]>>, query)
  ELSE PassingRecords(query,
                      QFullAll(<<PageFrame(TablesNamed(query.table)[1].rootpage)>>, query),
                      TRUE)

\* the rows the run returns: the cells behind the lines of `result`
ReturnedRows ==
  IF query.impl = "db" THEN records
  ELSE PassingRecords(query, records, ~row_ids.some)

\* the number a COUNT(*) run returns
ReturnedCount ==
  IF query.impl = "db" THEN ParseInt(result[1]) ELSE ParseInt(result[1][1])

\* ------------------------------------------------------------- what is expected
\* SQL equality of a literal and a stored value: a number equals the same integer, a
\* quoted string the same text, and nothing equals NULL or a value of another type
TrueEq(w, v) ==
  IF w.kind = "Number" THEN v.t = "Int" /\ v.n = ParseInt(w.s)
  ELSE v.t = "Text" /\ v.s = w.s

\* the row ids of the table whose filter column equals the literal
MatchingIds(w) ==
  {i \in 1..Len(db.rows) : ~w.some \/ TrueEq(w, db.rows[i])}

RowIdsOf(cells) == [i \in 1..Len(cells) |-> cells[i].row_id]

Count(s, x) == Cardinality({i \in 1..Len(s) : s[i] = x})

SameBag(a, b) ==
  /\ Len(a) = Len(b)
  /\ \A x \in Range(a) \cup Range(b) : Count(a, x) = Count(b, x)

StrictlyIncreasing(s) == \A i \in 1..(Len(s) - 1) : s[i] < s[i + 1]

\* no page of the file is damaged
WellFormed == \A p \in 1..Len(db.pages) : db.pages[p].type # "Invalid"

\* the query is of the dialect and names table t and its columns
InDialect ==
  /\ query.parse_ok
  /\ query.table = "t"
  /\ query.select.fn \in {"COUNT", ""}
  /\ Range(query.select.cols) \subseteq Range(TableColumns)
  /\ query.where.some => (query.where.op = "=" /\ query.where.column \in Range(TableColumns))

\* the run has ended and returned its rows
Returned == pc = "done" /\ outcome = "ok"

\* the pages of the B-tree whose root is page p of the file (1-based)
RECURSIVE Subtree(_)
Subtree(p) ==
  LET pg == db.pages[p]
      kids == {pg.cells[i].child : i \in 1..Len(pg.cells)} \cup {pg.right}
  IN {p} \cup UNION {Subtree(c) : c \in kids \ {0}}

\* the leaf cells of the B-tree of table t: every (page, cell) of its leaf pages
TableLeafKeys ==
  {<<p, i>> \in Subtree(db.schema[1].rootpage) \X (1..MaxRows + 1) :
     db.pages[p].type = "LeafTable" /\ i <= Len(db.pages[p].cells)}

\* a full scan has run to the end of its loop
FullScanEnded ==
  /\ ~query.where.some
  /\ Len(stack) = 0
  /\ \/ query.impl = "db" /\ pc = "scan"
     \/ query.impl = "query" /\ pc = "full"

\* ------------------------------------------------------------------- claims
\* C1: for a well-formed database with an index on the filter column and a query of
\* the dialect with WHERE c = v, the run that takes the index path (index probe, then
\* the table scan bounded by the row ids) ends well and returns the same multiset of
\* rows as the full table scan with the filter applied, whichever columns are
\* projected.
C1_IndexPathEqualsScanPath ==
  (pc = "done" /\ row_ids.some /\ WellFormed /\ InDialect)
    => (outcome = "ok" /\ SameBag(ReturnedRows, ScanPathRows))

\* C2: when a full table scan (no WHERE) started at the table's root page has run to
\* the end of its loop, every cell of every leaf page of the table B-tree has been
\* emitted exactly once and nothing else has, whatever the shape of the tree -
\* interior pages with a single cell included.
C2_FullScanEmitsEveryLeafRecordOnce ==
  FullScanEnded =>
    /\ Len(records) = Cardinality(TableLeafKeys)
    /\ \A k \in TableLeafKeys :
         Count(RowIdsOf(records), db.pages[k[1]].cells[k[2]].key) = 1

\* a full scan has ended over a tree whose root is an interior page with a single
\* cell, with rows below that cell's child and below the right-most child
C2_Witness ==
  /\ FullScanEnded
  /\ \E p \in 2..Len(db.pages) :
       /\ db.pages[p].type = "InteriorTable"
       /\ Len(db.pages[p].cells) = 1
       /\ Len(db.pages[db.pages[p].cells[1].child].cells) > 0
       /\ Len(db.pages[db.pages[p].right].cells) > 0
  /\ Len(records) = Len(db.rows)
  /\ Len(records) >= 2

\* C3: the rows a run returns, on the scan path and on the index path, are in strictly
\* increasing order of row id, whatever the placement of the cells inside each page.
C3_RowsInAscendingRowIdOrder ==
  (Returned /\ WellFormed /\ InDialect) => StrictlyIncreasing(RowIdsOf(ReturnedRows))

\* C4: when the index probe has ended, the row ids it returns are exactly the row ids
\* of the rows whose indexed column equals the key: every matching entry, those kept
\* in interior index cells and those below the right-most child included, and no other
\* row id.
C4_IndexProbeExact ==
  (row_ids.some /\ pc \in {"scan", "by_row_ids"} /\ WellFormed /\ InDialect)
    => Range(row_ids.ids) = MatchingIds(query.where)

\* C5: when the table scan bounded by the row ids R of the probe has run to the end of
\* its loop, the rows it has kept are exactly the rows of the table whose row id is in
\* R: none missing, a row whose row id equals the key of an interior cell included,
\* and none extra.
C5_BoundedScanExact ==
  (row_ids.some /\ pc \in {"scan", "by_row_ids"} /\ Len(stack) = 0
   /\ WellFormed /\ InDialect)
    => /\ Range(RowIdsOf(records)) = Range(row_ids.ids)
       /\ Len(records) = Cardinality(Range(row_ids.ids))

\* C6: a COUNT(*) run returns the number of rows of the table that pass the filter
\* (all rows when there is no WHERE), which is 0 for an empty table.
C6_CountIsNumberOfPassingRows ==
  (Returned /\ WellFormed /\ InDialect /\ query.select.fn = "COUNT")
    => ReturnedCount = Cardinality(MatchingIds(query.where))

\* C7: a query that parses and names a table the schema does not have ends with an
\* error value whose message holds the table's name; it does not panic, and no page
\* but the schema page has been read.
C7_UnknownTableIsAnErrorValue ==
  (pc = "done" /\ query.parse_ok /\ query.where.op = "=" /\ query.where.kind = "String"
   /\ \A i \in 1..Len(db.schema) : db.schema[i].tbl_name # query.table)
    => /\ outcome = "err"
       /\ errmsg.arg = query.table
       /\ Range(visited) \subseteq {1}

\* C8: in every run that ends with an error, an error value or a panic, at any point
\* of parsing, schema lookup, index probe, traversal or projection, nothing has been
\* written to the output.
C8_NoPartialOutputOnFailure ==
  outcome \in {"err", "panic"} => output = <<>>

\* a run has failed after its scan had kept rows of the table
C8_Witness ==
  /\ pc = "done"
  /\ outcome = "err"
  /\ query.impl = "db"
  /\ Len(records) > 0
  /\ output = <<>>

\* C9: an equality predicate never matches a stored NULL: the index probe returns no
\* row id of an entry whose key is NULL, and no row whose filter column is NULL is
\* returned, on the scan path and on the index path.
C9_EqualityNeverMatchesNull ==
  (query.where.some /\ WellFormed /\ InDialect)
    => /\ \A k \in 1..Len(row_ids.ids) : db.rows[row_ids.ids[k]] # VNull
       /\ (Returned => \A k \in 1..Len(ReturnedRows) :
                         db.rows[ReturnedRows[k].row_id] # VNull)

\* C10: a stored value of another type than the filter value never compares equal to
\* it: a run with an integer literal returns only rows that store an integer, and a
\* run with a text literal only rows that store text.
C10_MismatchedTypesCompareUnequal ==
  (Returned /\ query.where.some /\ WellFormed /\ InDialect)
    => \A k \in 1..Len(ReturnedRows) :
         db.rows[ReturnedRows[k].row_id].t =
           (IF query.where.kind = "Number" THEN "Int" ELSE "Text")

\* the text of a stored value in a row of output: NULL as null, an integer in
\* decimal, text and blobs as they are
Rendered(v) ==
  CASE v.t = "Null" -> StrNull
    [] v.t = "Int" -> I64ToString(v.n)
    [] OTHER -> v.s

\* the value row rid of the table has in column col of the table definition
StoredValue(rid, col) ==
  CASE col = "id" -> VInt(rid)
    [] col = "c" -> db.rows[rid]
    [] col = "d" -> VInt(100 + rid)

\* the lines of the rows the run returns
ReturnedLines ==
  IF query.impl = "db" THEN result ELSE [i \in 1..Len(result) |-> JoinPipe(result[i])]

\* the query is a column-list SELECT on table t of a well-formed database
ColumnListQuery ==
  /\ WellFormed
  /\ query.parse_ok
  /\ query.table = "t"
  /\ query.select.fn = ""
  /\ query.where.some => (query.where.op = "=" /\ query.where.column \in Range(TableColumns))

\* C11: a column-list SELECT whose columns are all in the table definition returns
\* rows that have one field per selected column, in the order listed, each the value
\* stored at that column's position; a SELECT that lists a column the table does not
\* have ends with an error value instead of returning rows without that column.
C11_ProjectionArityAndOrder ==
  (pc = "done" /\ ColumnListQuery)
    => IF Range(query.select.cols) \subseteq Range(TableColumns)
       THEN Returned =>
              /\ Len(ReturnedLines) = Len(ReturnedRows)
              /\ \A k \in 1..Len(ReturnedRows) :
                   ReturnedLines[k] =
                     JoinPipe([j \in 1..Len(query.select.cols) |->
                                 Rendered(StoredValue(ReturnedRows[k].row_id,
                                                      query.select.cols[j]))])
       ELSE outcome = "err"

\* ------------------------------------------------- decoders run on their own
\* the run of a query is idle while a decoder is run on its own
Idle ==
  /\ db = [rows |-> <<>>, pages |-> <<>>, schema |-> <<>>]
  /\ query = [impl |-> "none", build |-> "release", parse_ok |-> FALSE, table |-> "",
              select |-> SelCount, where |-> NoWhere]
  /\ pc = "idle"
  /\ stack = <<>>
  /\ row_ids = NoRowIds
  /\ records = <<>>
  /\ result = <<>>
  /\ outcome = "running"
  /\ errmsg = NoError
  /\ output = <<>>
  /\ visited = <<>>

\* ---------------------------------------------------------- 64-bit integers
\* the width of u64 and i64: a value is its 64 bits, most significant first
U64Bits == 64

Zero64 == [i \in 1..U64Bits |-> 0]

\* bit i of byte b, bit 0 the least significant
BitOf(b, i) == (b \div (2 ^ i)) % 2

\* u64::from(byte), i64 from a byte
FromU8(b) == [i \in 1..U64Bits |-> IF i > U64Bits - 8 THEN BitOf(b, U64Bits - i) ELSE 0]

\* value << k: the bits shifted out at the top are lost
Shl(v, k) == [i \in 1..U64Bits |-> IF i + k <= U64Bits THEN v[i + k] ELSE 0]

\* a | b
BitOr(a, b) == [i \in 1..U64Bits |-> IF a[i] = 1 \/ b[i] = 1 THEN 1 ELSE 0]

\* the number the first i bits of a 64-bit value denote, all 64 for the value itself
\* (as usize; the sizes, serial types and row ids of the model are below 2^31)
RECURSIVE ToNat(_, _)
ToNat(v, i) == IF i = 0 THEN 0 ELSE 2 * ToNat(v, i - 1) + v[i]

\* -------------------------------------------------------------------- varint
\* read_varint (context/varint.rs): the loop from the state (result, bytes_read)
RECURSIVE ReadVarintFrom(_, _, _)
ReadVarintFrom(bytes, res, bytes_read) ==
  IF bytes_read >= Len(bytes)
  THEN [status |-> "err", by |-> "read_varint", value |-> Zero64, len |-> 0]
  ELSE LET byte == bytes[bytes_read + 1]
           n == bytes_read + 1
       IN IF n = 9
          THEN [status |-> "ok", by |-> "read_varint",
                value |-> BitOr(Shl(res, 7), FromU8(byte)), len |-> n]
          ELSE LET r == BitOr(Shl(res, 7), FromU8(byte % 128))
               IN IF byte < 128
                  THEN [status |-> "ok", by |-> "read_varint", value |-> r, len |-> n]
                  ELSE ReadVarintFrom(bytes, r, n)

ReadVarint(bytes) == ReadVarintFrom(bytes, Zero64, 0)

\* high_bit (src/varint.rs)
HighBit(byte) == ((byte - (byte % 16)) \div 128) = 1

\* varint (src/varint.rs): the while loop from the state (value, i), i counted from 0;
\* indexing past the end of the input panics
RECURSIVE VarintFrom(_, _, _)
VarintFrom(bytes, value, i) ==
  IF HighBit(bytes[i + 1]) /\ i < 8
  THEN IF i + 2 > Len(bytes)
       THEN [status |-> "panic", by |-> "varint", value |-> Zero64, len |-> 0]
       ELSE VarintFrom(bytes, BitOr(Shl(value, 7), FromU8(bytes[i + 2] % 128)), i + 1)
  ELSE [status |-> "ok", by |-> "varint", value |-> value, len |-> i + 1]

Varint(bytes) ==
  IF Len(bytes) = 0
  THEN [status |-> "panic", by |-> "varint", value |-> Zero64, len |-> 0]
  ELSE VarintFrom(bytes, FromU8(bytes[1] % 128), 0)

\* read_varint is applied to the input
DecodeReadVarint ==
  /\ input.kind = "varint"
  /\ decoded = NoDecoded
  /\ decoded' = ReadVarint(input.bytes)
  /\ UNCHANGED <<input, runVars>>

\* varint is applied to the input
DecodeVarint ==
  /\ input.kind = "varint"
  /\ decoded = NoDecoded
  /\ decoded' = Varint(input.bytes)
  /\ UNCHANGED <<input, runVars>>

\* bytes with the continuation bit, bytes that end a varint, ninth bytes, and what
\* follows a varint in the input
ContBytes == {129, 255}
LastBytes == {0, 1, 127}
NinthBytes == {1, 128, 255}
Trailers == {<<>>, <<171>>}

\* inputs that begin with a complete varint of one to nine bytes, and inputs that end
\* before the varint does
InitVarint ==
  /\ Idle
  /\ decoded = NoDecoded
  /\ \/ \E n \in 0..7 : \E pre \in [1..n -> ContBytes], l \in LastBytes, tr \in Trailers :
          input = [kind |-> "varint", bytes |-> pre \o <<l>> \o tr]
     \/ \E pre \in [1..8 -> ContBytes], l \in NinthBytes, tr \in Trailers :
          input = [kind |-> "varint", bytes |-> pre \o <<l>> \o tr]
     \/ \E n \in 0..8 : \E pre \in [1..n -> ContBytes] :
          input = [kind |-> "varint", bytes |-> pre]

\* -------------------------------------------------------------------- header
\* "SQLite format 3\0", the first 16 bytes of a database file
MagicString == <<83, 81, 76, 105, 116, 101, 32, 102, 111, 114, 109, 97, 116, 32, 51, 0>>

\* the 20 bytes reserved for expansion, as a well-formed file has them
ReservedZeros == [i \in 1..20 |-> 0]

\* what Header::parse returns
HeaderErr(msg) == [status |-> "err", by |-> "Header::parse", msg |-> msg]
HeaderPanic(msg) == [status |-> "panic", by |-> "Header::parse", msg |-> msg]

\* Header::parse (src/header.rs) on the 100 bytes h, held as the fields the parser
\* reads in turn; the fields it reads without a check are left out
HeaderParse(h) ==
  IF h.header_string # MagicString THEN HeaderPanic("assertion failed: header_string")
  ELSE IF ~(h.page_size = 1 \/ (h.page_size >= 512 /\ \E e \in 9..15 : h.page_size = 2 ^ e))
  THEN HeaderErr("invalid page size")
  ELSE IF h.write_version \notin {1, 2} THEN HeaderErr("invalid format version value")
  ELSE IF h.read_version \notin {1, 2} THEN HeaderErr("invalid format version value")
  ELSE IF h.max_embedded_payload_fraction # 64
  THEN HeaderPanic("assertion failed: max_embedded_payload_fraction")
  ELSE IF h.min_embedded_payload_fraction # 32
  THEN HeaderPanic("assertion failed: min_embedded_payload_fraction")
  ELSE IF h.leaf_payload_fraction # 32
  THEN HeaderPanic("assertion failed: leaf_payload_fraction")
  ELSE IF h.schema_format \notin 1..4 THEN HeaderErr("invalid schema format")
  ELSE IF h.text_encoding \notin {1, 2, 3} THEN HeaderErr("invalid text encoding value")
  ELSE IF h.incremental_vacuum_mode \notin {0, 1}
  THEN HeaderPanic("assertion failed: incremental_vacuum_mode")
  ELSE IF \E i \in 1..Len(h.zeros) : h.zeros[i] # 0
  THEN HeaderPanic("assertion failed: zeros")
  ELSE [status |-> "ok", by |-> "Header::parse",
        msg |-> "", page_size |-> IF h.page_size = 1 THEN 65536 ELSE h.page_size]

\* Header::parse is applied to the input
DecodeHeader ==
  /\ input.kind = "header"
  /\ decoded = NoDecoded
  /\ decoded' = HeaderParse(input)
  /\ UNCHANGED <<input, runVars>>

\* headers of 100 bytes: well-formed ones and ones with a field that is off
InitHeader ==
  /\ Idle
  /\ decoded = NoDecoded
  /\ \E hs \in {MagicString, [MagicString EXCEPT ![16] = 32]},
        ps \in {1, 4096, 513},
        wv \in {1, 3}, rv \in {2, 0},
        mx \in {64, 65}, mn \in {32, 0}, lf \in {32, 33},
        sf \in {4, 5}, te \in {1, 4}, vm \in {0, 1, 2},
        zs \in {ReservedZeros, [ReservedZeros EXCEPT ![20] = 1]} :
       input = [kind |-> "header", header_string |-> hs, page_size |-> ps,
                write_version |-> wv, read_version |-> rv,
                max_embedded_payload_fraction |-> mx,
                min_embedded_payload_fraction |-> mn,
                leaf_payload_fraction |-> lf, schema_format |-> sf,
                text_encoding |-> te, incremental_vacuum_mode |-> vm, zeros |-> zs]

\* ------------------------------------------------------- cells with overflow
\* Value::from_bytes on a column whose bytes run past the end of the payload it is
\* given: an error value
ValueFromBytesShort == "err"

\* LeafTableCell::from_bytes, LeafIndexCell::from_bytes, InteriorIndexCell::from_bytes
\* for a declared payload size and avail bytes left in the cell's slice of the page:
\* an overflow is recorded and the record is decoded from the bytes in the page
CellFromBytesOverflow(payload_size, avail) ==
  IF payload_size > avail
  THEN IF avail < 4
       THEN [status |-> "err", by |-> "from_bytes", msg |-> "Invalid payload size",
             overflow |-> FALSE]
       ELSE [status |-> ValueFromBytesShort, by |-> "from_bytes",
             msg |-> "record decoded from the bytes in the page", overflow |-> TRUE]
  ELSE [status |-> "ok", by |-> "from_bytes", msg |-> "", overflow |-> FALSE]

\* Cell::parse is applied to the input
DecodeCellParse ==
  /\ input.kind = "cell"
  /\ decoded = NoDecoded
  /\ decoded' = CellOverflowCheck(input.ty, input.usable_page_size, input.payload_size,
                                  input.build)
  /\ UNCHANGED <<input, runVars>>

\* the cell decoder of sqlite.rs is applied to the input
DecodeCellFromBytes ==
  /\ input.kind = "cell"
  /\ decoded = NoDecoded
  /\ decoded' = CellFromBytesOverflow(input.payload_size, input.avail)
  /\ UNCHANGED <<input, runVars>>

\* the payload bytes a well-formed file keeps in the page for a payload of size p
StoredLocal(ty, u, p) ==
  LET k == MinLocal(u) + ((p - MinLocal(u)) % (u - 4))
  IN IF p <= MaxLocal(ty, u) THEN p
     ELSE IF k <= MaxLocal(ty, u) THEN k ELSE MinLocal(u)

\* cells of a well-formed file around the sizes at which a payload starts to
\* overflow, and cells whose slice of the page is cut short
InitCell ==
  /\ Idle
  /\ decoded = NoDecoded
  /\ \E ty \in {"LeafTable", "LeafIndex", "InteriorIndex"}, u \in {512, 4096},
        d \in {0 - 1, 0, 1, 500}, at \in {"min", "max"}, cut \in BOOLEAN, build \in Builds :
       LET p == (IF at = "min" THEN MinLocal(u) ELSE MaxLocal(ty, u)) + d
           stored == StoredLocal(ty, u, p)
       IN input = [kind |-> "cell", ty |-> ty, usable_page_size |-> u, payload_size |-> p,
                   stored |-> IF cut THEN 2 ELSE stored,
                   avail |-> IF cut THEN 2 ELSE IF stored < p THEN stored + 4 ELSE stored,
                   build |-> build]

\* ------------------------------------------------------- records, byte by byte
\* ColumnType::try_from: the column type of a serial type, "Invalid" for Err
ColumnTypeTryFrom(value) ==
  CASE value = 0 -> [k |-> "Null", size |-> 0]
    [] value = 1 -> [k |-> "I8", size |-> 0]
    [] value = 2 -> [k |-> "I16", size |-> 0]
    [] value = 3 -> [k |-> "I24", size |-> 0]
    [] value = 4 -> [k |-> "I32", size |-> 0]
    [] value = 5 -> [k |-> "I48", size |-> 0]
    [] value = 6 -> [k |-> "I64", size |-> 0]
    [] value = 7 -> [k |-> "F64", size |-> 0]
    [] value = 8 -> [k |-> "Zero", size |-> 0]
    [] value = 9 -> [k |-> "One", size |-> 0]
    [] value \in {10, 11} -> [k |-> "Invalid", size |-> 0]
    [] OTHER -> IF value % 2 = 0
                THEN [k |-> "Blob", size |-> (value - 12) \div 2]
                ELSE [k |-> "Text", size |-> (value - 13) \div 2]

\* ColumnType::size
ColumnTypeSize(ct) ==
  CASE ct.k = "Null" -> 0
    [] ct.k = "I8" -> 1
    [] ct.k = "I16" -> 2
    [] ct.k = "I24" -> 3
    [] ct.k = "I32" -> 4
    [] ct.k = "I48" -> 6
    [] ct.k = "I64" -> 8
    [] ct.k = "F64" -> 8
    [] ct.k = "Zero" -> 0
    [] ct.k = "One" -> 0
    [] OTHER -> ct.size

\* the bytes from offset pos on (pos counted from 0)
From(bytes, pos) == SubSeq(bytes, pos + 1, Len(bytes))

\* i8 of a byte, and the signed integer of big-endian bytes whose first is signed
SignedByte(b) == IF b >= 128 THEN b - 256 ELSE b

RECURSIVE BeUnsigned(_)
BeUnsigned(bs) ==
  IF Len(bs) = 0 THEN 0 ELSE 256 * BeUnsigned(SubSeq(bs, 1, Len(bs) - 1)) + bs[Len(bs)]

BeSigned(bs) == SignedByte(bs[1]) * (256 ^ (Len(bs) - 1)) + BeUnsigned(Tail(bs))

\* std::str::from_utf8 succeeds: the bytes of the model are ASCII bytes or bytes of
\* 0x80 and above that no lead byte precedes
IsUtf8(bs) == \A i \in 1..Len(bs) : bs[i] < 128

RecordResult(status, msg, values, pos) ==
  [status |-> status, by |-> "Record::parse", msg |-> msg, values |-> values, pos |-> pos]

\* Record::parse, the while loop over the header: the column types read from offset
\* pos on, header_bytes_read bytes of the header being read; status "ok" with the types
RECURSIVE ParseColumnTypes(_, _, _, _, _)
ParseColumnTypes(bytes, pos, header_bytes_read, header_size, column_types) ==
  IF header_bytes_read >= header_size
  THEN [status |-> "ok", msg |-> "", types |-> column_types, pos |-> pos]
  ELSE LET v == Varint(From(bytes, pos))
       IN IF v.status = "panic"
          THEN [status |-> "panic", msg |-> "index out of bounds", types |-> <<>>, pos |-> pos]
          ELSE LET ct == ColumnTypeTryFrom(ToNat(v.value, U64Bits))
               IN IF ct.k = "Invalid"
                  THEN [status |-> "panic", msg |-> "invalid column type", types |-> <<>>,
                        pos |-> pos]
                  ELSE ParseColumnTypes(bytes, pos + v.len, header_bytes_read + v.len,
                                        header_size, Append(column_types, ct))

\* Record::parse, the for loop over the column types from the i-th on (i counted from
\* 0), values being those pushed so far and pos the offset of the rest of the input
RECURSIVE ParseColumnValues(_, _, _, _, _, _, _, _, _)
ParseColumnValues(bytes, pos, column_types, i, column_names, column_indices, is_table, row_id, values) ==
  IF i >= Len(column_types) THEN RecordResult("ok", "", values, pos)
  ELSE
    LET ct == column_types[i + 1]
        to_include == \E k \in 1..Len(column_indices) : column_indices[k] = i
        is_row_id_alias ==
          to_include /\ column_names[CHOOSE k \in 1..Len(column_indices) :
                                       column_indices[k] = i] = "id"
        width == CASE ct.k = "I8" -> 1 [] ct.k = "I16" -> 2 [] ct.k = "I24" -> 3
                   [] ct.k = "I32" -> 4 [] ct.k \in {"Blob", "Text"} -> ct.size
                   [] OTHER -> 0
        taken == SubSeq(bytes, pos + 1, pos + width)
        value == CASE ct.k = "Null" ->
                        IF is_table /\ is_row_id_alias THEN VInt(row_id) ELSE VNull
                   [] ct.k = "I8" -> VInt(SignedByte(taken[1]))
                   [] ct.k = "I16" -> VInt(BeSigned(taken))
                   [] ct.k = "I24" -> VInt(BeSigned(<<0>> \o taken))
                   [] ct.k = "I32" -> VInt(BeSigned(taken))
                   [] ct.k = "Zero" -> VInt(0)
                   [] ct.k = "One" -> VInt(0)
                   [] ct.k = "Blob" -> VBlob(taken)
                   [] ct.k = "Text" -> VText(taken)
    IN IF ct.k \in {"I48", "I64", "F64"}
       THEN RecordResult("panic", "not yet implemented", values, pos)
       ELSE IF pos + width > Len(bytes)
       THEN RecordResult("err", "nom: Eof", values, pos)
       ELSE IF to_include /\ ct.k \in {"Blob", "Text"} /\ ~IsUtf8(taken)
       THEN RecordResult("panic", "non utf-8 text", values, pos)
       ELSE ParseColumnValues(bytes, pos + width, column_types, i + 1, column_names,
                              column_indices, is_table, row_id,
                              IF to_include THEN Append(values, value) ELSE values)

\* Record::parse on the bytes of a record (of a table: the row id ahead of it)
RecordParseBytes(bytes, column_names, column_indices, is_table) ==
  LET rid == IF is_table THEN Varint(bytes)
             ELSE [status |-> "ok", by |-> "varint", value |-> Zero64, len |-> 0]
  IN IF rid.status = "panic" THEN RecordResult("panic", "index out of bounds", <<>>, 0)
     ELSE
       LET hs == Varint(From(bytes, rid.len))
       IN IF hs.status = "panic"
          THEN RecordResult("panic", "index out of bounds", <<>>, rid.len)
          ELSE
            LET tys == ParseColumnTypes(bytes, rid.len + hs.len, hs.len,
                                        ToNat(hs.value, U64Bits), <<>>)
            IN IF tys.status # "ok" THEN RecordResult(tys.status, tys.msg, <<>>, tys.pos)
               ELSE ParseColumnValues(bytes, tys.pos, tys.types, 0, column_names,
                                      column_indices, is_table,
                                      ToNat(rid.value, U64Bits), <<>>)

\* Record::parse is applied to the input
DecodeRecordParse ==
  /\ input.kind = "record"
  /\ decoded = NoDecoded
  /\ decoded' = RecordParseBytes(input.bytes, input.column_names, input.column_indices,
                                 input.is_table)
  /\ UNCHANGED <<input, runVars>>

\* the bytes a value of serial type n takes (0 for the types without a width)
SerialWidth(n) ==
  CASE n \in {1, 2, 3, 4} -> n
    [] n = 5 -> 6
    [] n \in {6, 7} -> 8
    [] n >= 12 -> (n - 12) \div 2
    [] OTHER -> 0

\* the serial types of the records of one column
SerialTypes == 0..17

\* index records of one column: the header, the bytes of the value (all of them, or
\* all but the last), and one byte after them
InitColumn ==
  /\ Idle
  /\ decoded = NoDecoded
  /\ \E n \in SerialTypes : \E body \in [1..SerialWidth(n) -> {1, 255}], short \in BOOLEAN :
       /\ short => SerialWidth(n) > 0
       /\ input = [kind |-> "record", of |-> "column", serial_type |-> n, short |-> short,
                   bytes |-> <<2, n>>
                             \o (IF short THEN SubSeq(body, 1, Len(body) - 1)
                                 ELSE body \o <<171>>),
                   body |-> body,
                   column_names |-> <<"c">>, column_indices |-> <<0>>,
                   is_table |-> FALSE]

\* records of two NULL columns, of a table (row id 7) and of an index, read with the
\* column named id first, second, or not read
InitAlias ==
  /\ Idle
  /\ decoded = NoDecoded
  /\ \E is_table \in BOOLEAN,
        cols \in {[names |-> <<"id", "c">>, indices |-> <<0, 1>>],
                  [names |-> <<"c", "id">>, indices |-> <<0, 1>>],
                  [names |-> <<"c">>, indices |-> <<1>>]} :
       input = [kind |-> "record", of |-> "alias", serial_type |-> 0, short |-> FALSE,
                bytes |-> (IF is_table THEN <<7>> ELSE <<>>) \o <<3, 0, 0>>,
                body |-> <<>>,
                column_names |-> cols.names, column_indices |-> cols.indices,
                is_table |-> is_table]

\* ------------------------------------------------- sqlite.rs: the page cache
\* the reads of one page the model follows
MaxReads == 2

\* LazyPage::Unloaded and LazyPage::Loaded(page)
NoPage == [page_type |-> "", cells |-> <<>>]
Unloaded == [state |-> "Unloaded", page |-> NoPage]
Loaded(page) == [state |-> "Loaded", page |-> page]

\* a mutant of LazyPageLoad: a loaded slot is read and decoded again
LazyPageLoadAlways(self, page_number) ==
  IF ~PageLoads(page_number)
  THEN [self |-> self, read |-> TRUE, ok |-> FALSE, page |-> NoPage]
  ELSE [self |-> Loaded(SQLitePage(page_number)), read |-> TRUE, ok |-> TRUE,
        page |-> SQLitePage(page_number)]

\* LazyPage::load: a loaded slot returns its page; an unloaded one seeks, reads and
\* decodes the page and becomes Loaded only when that succeeded.  read tells whether
\* the file was read
LazyPageLoad(self, page_number) ==
  IF self.state = "Loaded"
  THEN [self |-> self, read |-> FALSE, ok |-> TRUE, page |-> self.page]
  ELSE IF ~PageLoads(page_number)
  THEN [self |-> self, read |-> TRUE, ok |-> FALSE, page |-> NoPage]
  ELSE [self |-> Loaded(SQLitePage(page_number)), read |-> TRUE, ok |-> TRUE,
        page |-> SQLitePage(page_number)]

\* SQLite::page(index): the call, its result kept in last, the reads of the file
\* counted for each page
CachePage ==
  /\ input.kind = "cache"
  /\ \E index \in 0..(Len(db.pages) - 1) :
       LET r == LazyPageLoad(decoded.pages[index], index)
       IN /\ r.read => decoded.reads[index] < MaxReads
          /\ decoded' = [decoded EXCEPT
                           !.pages[index] = r.self,
                           !.reads[index] = IF r.read THEN @ + 1 ELSE @,
                           !.requested = @ \cup {index},
                           !.last = [index |-> index, ok |-> r.ok, read |-> r.read,
                                     page |-> r.page]]
  /\ UNCHANGED <<input, runVars>>

\* SQLite::new: one unloaded slot for each page of the file, which has a damaged
\* page or none
InitCache ==
  /\ \E layout \in Layouts, bad \in {0, 2, 4} : db = BuildDb(ErrRows, 2, 2, layout, 1, bad)
  /\ query = [impl |-> "none", build |-> "release", parse_ok |-> FALSE, table |-> "",
              select |-> SelCount, where |-> NoWhere]
  /\ pc = "idle"
  /\ stack = <<>>
  /\ row_ids = NoRowIds
  /\ records = <<>>
  /\ result = <<>>
  /\ outcome = "running"
  /\ errmsg = NoError
  /\ output = <<>>
  /\ visited = <<>>
  /\ input = [kind |-> "cache"]
  /\ decoded = [status |-> "cache",
                pages |-> [i \in 0..(Len(db.pages) - 1) |-> Unloaded],
                reads |-> [i \in 0..(Len(db.pages) - 1) |-> 0],
                requested |-> {},
                last |-> [index |-> 0, ok |-> FALSE, read |-> FALSE, page |-> NoPage]]

\* ------------------------------------------- the cell pointer array of a page
\* Offsets and lengths are counted in cells' worth of bytes: a cell takes one unit.
\* The loop of Page::from_bytes (sqlite.rs) over the cell positions, largest first:
\* page_len is the length of what is left of the page, parses tells whether the bytes
\* a pointer leads to decode as a cell
RECURSIVE CarveCells(_, _, _, _, _)
CarveCells(positions, i, page_len, start_cell_content_area, parses) ==
  IF i > Len(positions) THEN "ok"
  ELSE IF positions[i] < start_cell_content_area THEN "err"
  ELSE IF positions[i] > page_len THEN "panic"
  ELSE IF positions[i] = page_len \/ ~parses THEN "err"
  ELSE CarveCells(positions, i + 1, positions[i], start_cell_content_area, parses)

\* Page::from_bytes (sqlite.rs) on a page of length page_len whose header gives the
\* start of the cell content area and whose pointer array holds offsets
PageFromBytesCells(page_len, start_cell_content_area, offsets, parses) ==
  IF page_len < start_cell_content_area THEN "err"
  ELSE CarveCells(SortBy(offsets, LAMBDA a, b : a > b), 1, page_len,
                  start_cell_content_area, parses)

\* The loop of Page::parse (page.rs) over the cell pointers, smallest first: position
\* is the offset reached in the page, and cell_offset - position is computed in usize
RECURSIVE ReadCells(_, _, _, _, _, _)
ReadCells(cell_pointers, i, position, page_len, parses, build) ==
  IF i > Len(cell_pointers) THEN "ok"
  ELSE IF cell_pointers[i] < position THEN (IF build = "debug" THEN "panic" ELSE "err")
  ELSE IF cell_pointers[i] >= page_len \/ ~parses THEN "err"
  ELSE ReadCells(cell_pointers, i + 1, cell_pointers[i] + 1, page_len, parses, build)

\* Page::parse (page.rs) on a page whose header and pointer array end at header_end
PageParseCells(page_len, header_end, offsets, parses, build) ==
  ReadCells(SortBy(offsets, LAMBDA a, b : a < b), 1, header_end, page_len, parses, build)

\* the page decoder of sqlite.rs is applied to the input
DecodePageFromBytes ==
  /\ input.kind = "pointers"
  /\ decoded = NoDecoded
  /\ decoded' = [status |-> "pointers", by |-> "sqlite",
                 result |-> PageFromBytesCells(input.page_len, input.start, input.offsets,
                                               input.parses)]
  /\ UNCHANGED <<input, runVars>>

\* the page decoder of page.rs is applied to the input
DecodePageParse ==
  /\ input.kind = "pointers"
  /\ decoded = NoDecoded
  /\ decoded' = [status |-> "pointers", by |-> "page",
                 result |-> PageParseCells(input.page_len, input.header_end, input.offsets,
                                           input.parses, input.build)]
  /\ UNCHANGED <<input, runVars>>

\* the length of the pages of the pointer arrays, and where their header and pointer
\* array end
PointerPageLen == 8
PointerHeaderEnd == 2

\* pages of one or two cell pointers: inside the header, between the pointer array
\* and the cell content area, inside the content area, at the end of the page and
\* past it
InitPointers ==
  /\ Idle
  /\ decoded = NoDecoded
  /\ \E start \in {4, 6}, n \in 1..2, parses \in BOOLEAN, build \in Builds :
       \E offsets \in [1..n -> {1, 3, 4, 6, 7, PointerPageLen, PointerPageLen + 1}] :
         input = [kind |-> "pointers", page_len |-> PointerPageLen,
                  header_end |-> PointerHeaderEnd, start |-> start, offsets |-> offsets,
                  parses |-> parses, build |-> build]

InitDecode ==
  InitVarint \/ InitHeader \/ InitCell \/ InitColumn \/ InitAlias \/ InitCache \/ InitPointers

NextDecode ==
  \/ DecodeReadVarint
  \/ DecodeVarint
  \/ DecodeHeader
  \/ DecodeCellParse
  \/ DecodeCellFromBytes
  \/ DecodeRecordParse
  \/ CachePage
  \/ DecodePageFromBytes
  \/ DecodePageParse

SpecDecode == InitDecode /\ [][NextDecode]_vars

\* the number of bytes of the varint the input begins with, 0 when the input ends
\* before the varint does
RECURSIVE VarintLen(_, _)
VarintLen(bytes, n) ==
  IF n > Len(bytes) THEN 0
  ELSE IF n = 9 \/ bytes[n] < 128 THEN n
  ELSE VarintLen(bytes, n + 1)

\* the value of the varint of n bytes: seven bits of each of the first eight bytes,
\* all eight bits of the ninth
RECURSIVE VarintValue(_, _)
VarintValue(bytes, n) ==
  IF n = 0 THEN Zero64
  ELSE IF n = 9 THEN BitOr(Shl(VarintValue(bytes, 8), 8), FromU8(bytes[9]))
  ELSE BitOr(Shl(VarintValue(bytes, n - 1), 7), FromU8(bytes[n] % 128))

\* C14: for every input that begins with a complete varint, the decoder returns the
\* value built big-endian from the low 7 bits of each of the first up to 8 bytes and
\* all 8 bits of a 9th byte, together with the number of bytes read (1 to 9).
C14_VarintValue ==
  (input.kind = "varint" /\ decoded # NoDecoded /\ VarintLen(input.bytes, 1) > 0)
    => /\ decoded.status = "ok"
       /\ decoded.len = VarintLen(input.bytes, 1)
       /\ decoded.value = VarintValue(input.bytes, decoded.len)

\* C15: when the input ends before a terminating byte is seen, the varint decoder
\* returns an error value; it does not panic.
C15_TruncatedVarintIsAnError ==
  (input.kind = "varint" /\ decoded # NoDecoded /\ VarintLen(input.bytes, 1) = 0)
    => decoded.status = "err"

\* the header breaks one of the constants of the file format: the magic string, the
\* payload fractions 64/32/32, or the zeros of the reserved region
HeaderConstantViolated(h) ==
  \/ h.header_string # MagicString
  \/ h.max_embedded_payload_fraction # 64
  \/ h.min_embedded_payload_fraction # 32
  \/ h.leaf_payload_fraction # 32
  \/ h.zeros # ReservedZeros

\* C13: a 100-byte header whose magic string, payload fractions or reserved region
\* are not the constants of the format makes the header decoder return an error
\* value, and no 100-byte header makes it panic.
C13_HeaderViolationsAreErrors ==
  (input.kind = "header" /\ decoded # NoDecoded)
    => /\ decoded.status # "panic"
       /\ HeaderConstantViolated(input) => decoded.status = "err"

\* C12: whenever a cell's declared payload size exceeds the payload bytes stored in
\* the page, decoding the cell ends with an error value; it does not panic and it
\* does not return a record built from the bytes in the page.
C12_OverflowFailsCleanly ==
  (input.kind = "cell" /\ decoded # NoDecoded /\ input.payload_size > input.stored)
    => decoded.status = "err"

\* Record::parse has been applied to an index record of one column whose value has
\* all its bytes
ColumnDecoded ==
  /\ input.kind = "record"
  /\ decoded # NoDecoded
  /\ input.of = "column"
  /\ ~input.short

\* C16: serial types 8 and 9 decode, without consuming payload bytes, to the integers
\* 0 and 1.
C16_ConstantSerialTypes ==
  (ColumnDecoded /\ input.serial_type \in {8, 9})
    => /\ decoded.status = "ok"
       /\ decoded.values = <<VInt(input.serial_type - 8)>>
       /\ decoded.pos = 2

\* the integer a serial type of 1..6 denotes is negative: the first of its
\* big-endian bytes has its top bit set
TopBitSet(bs) == bs[1] >= 128

\* C17: an integer of serial type 1..6 decodes to the sign-extended two's-complement
\* value of its 1, 2, 3, 4, 6 or 8 big-endian bytes: every width decodes to a value,
\* negative when the top bit of the first byte is set (for the widths that fit the
\* integers of the model the value itself is compared).
C17_IntegersAreSignExtended ==
  (ColumnDecoded /\ input.serial_type \in 1..6)
    => /\ decoded.status = "ok"
       /\ Len(decoded.values) = 1
       /\ decoded.values[1].t = "Int"
       /\ (decoded.values[1].n < 0) <=> TopBitSet(input.body)
       /\ Len(input.body) <= 4 => decoded.values[1].n = BeSigned(input.body)

\* the kind of value a serial type denotes
SerialKind(n) ==
  CASE n = 0 -> "Null"
    [] n \in 1..6 \cup {8, 9} -> "Int"
    [] n = 7 -> "Real"
    [] n >= 12 /\ n % 2 = 0 -> "Blob"
    [] n >= 13 /\ n % 2 = 1 -> "Text"
    [] OTHER -> "None"

\* C18: the decoder maps serial type 0 to NULL, 1..6 to integers of 1, 2, 3, 4, 6, 8
\* bytes, 7 to a double of 8 bytes, 8 and 9 to constants of no bytes, even N >= 12 to
\* a BLOB of (N-12)/2 bytes and odd N >= 13 to a TEXT of (N-13)/2 bytes, consuming
\* exactly that many bytes of the payload, and rejects 10 and 11 (a TEXT is taken
\* to hold UTF-8).
C18_SerialTypeDispatch ==
  (ColumnDecoded /\ (SerialKind(input.serial_type) = "Text" => IsUtf8(input.body)))
    => IF input.serial_type \in {10, 11} THEN decoded.status # "ok"
       ELSE /\ ColumnTypeSize(ColumnTypeTryFrom(input.serial_type))
                 = SerialWidth(input.serial_type)
            /\ decoded.status = "ok"
            /\ Len(decoded.values) = 1
            /\ decoded.values[1].t = SerialKind(input.serial_type)
            /\ decoded.pos = 2 + SerialWidth(input.serial_type)

\* the record of cell c of a page of type ty as the run's decoder returns it, column
\* by column: the 0-based position of the column in the record, the value stored
\* and the value decoded
DecodedColumns(ty, c) ==
  IF query.impl = "db"
  THEN LET got == RecordFromBytes(IF ty = "LeafTable" THEN c.key ELSE 0, c.rec)
       IN [j \in 1..Len(c.rec) |-> [col |-> j - 1, stored |-> c.rec[j], got |-> got[j]]]
  ELSE LET names == IF ty = "LeafTable" THEN ColumnNames(query)
                    ELSE <<query.where.column, "row_id">>
           indices == IF ty = "LeafTable" THEN ColumnIndices(query) ELSE <<0, 1>>
           got == RecordParse(c.rec, names, indices, ty = "LeafTable", c.key)
       IN [k \in 1..Len(indices) |->
             [col |-> indices[k], stored |-> c.rec[indices[k] + 1], got |-> got[k]]]

\* C19: in every page a run decodes, a value differs from the stored one only where
\* a NULL in the first column of a table-leaf record has become Integer(row_id): a
\* NULL in any other column stays NULL and the records of index-leaf and
\* index-interior cells are returned as stored.
C19_RowIdAliasScope ==
  \A n \in 1..Len(visited) :
    LET page == db.pages[visited[n]]
    IN page.type \in {"LeafTable", "LeafIndex", "InteriorIndex"}
         => \A i \in 1..Len(page.cells) :
              LET cols == DecodedColumns(page.type, page.cells[i])
              IN \A k \in 1..Len(cols) :
                   cols[k].got # cols[k].stored
                     => /\ page.type = "LeafTable"
                        /\ cols[k].col = 0
                        /\ cols[k].stored = VNull
                        /\ cols[k].got = VInt(page.cells[i].key)

\* the probe of an index for an integer key has ended
IntegerProbeEnded ==
  /\ row_ids.some /\ pc \in {"scan", "by_row_ids"}
  /\ WellFormed /\ InDialect
  /\ query.where.kind = "Number"

\* C20: when the probe of an index for an integer key k has ended, every child of an
\* interior index page it has read whose upper bound is an integer numerically >= k
\* has been read too, whatever the decimal text of the two numbers.
C20_IntegerKeysCompareNumerically ==
  IntegerProbeEnded
    => \A n \in 1..Len(visited) :
         LET page == db.pages[visited[n]]
         IN page.type = "InteriorIndex"
              => \A i \in 1..Len(page.cells) :
                   (/\ page.cells[i].rec[1].t = "Int"
                    /\ page.cells[i].rec[1].n >= ParseInt(query.where.s))
                     => \E m \in 1..Len(visited) : visited[m] = page.cells[i].child


\* ------------------------------------------------------- the planner's choice

\* the indexes of the queried table whose column is the filter column
MatchingIndexes ==
  SelectSeq(db.schema, LAMBDA o : /\ o.type = "index"
                                  /\ o.tbl_name = query.table
                                  /\ o.columns[1] = query.where.column)

\* the on-disk numbers of the pages waiting in the work list
StackPages ==
  {IF query.impl = "db" THEN stack[k].page + 1 ELSE stack[k].page : k \in 1..Len(stack)}

\* the pages of the B-trees of the indexes in MatchingIndexes
MatchingIndexPages ==
  UNION {Subtree(MatchingIndexes[k].rootpage) : k \in 1..Len(MatchingIndexes)}

\* the planner has chosen the index path and the probe is running
OnIndexPath == pc \in {"index", "search"}

\* the planner has chosen the full scan
OnFullScanPath == pc \in {"scan", "full"} /\ ~row_ids.some

\* C21: the index path is taken exactly when the query has a WHERE clause and the
\* schema holds an index of the queried table on the filter column, and the probe
\* then reads only pages of such an index; an index of another table on a column of
\* the same name is never read; otherwise the planner takes the full scan
C21_IndexPathChoice ==
  (WellFormed /\ InDialect)
    => /\ OnIndexPath => /\ query.where.some
                         /\ Len(MatchingIndexes) > 0
                         /\ StackPages \subseteq MatchingIndexPages
       /\ OnFullScanPath => ~(query.where.some /\ Len(MatchingIndexes) > 0)

\* the query filters on a column that more than one index of its table covers
SeveralMatch == query.where.some /\ Len(MatchingIndexes) > 1

\* C22: when more than one index of the queried table matches the filter column the
\* query still succeeds, and the probe reads the first matching index in schema
\* order: the further indexes change neither the result nor the outcome
C22_FirstMatchingIndexIsProbed ==
  (WellFormed /\ InDialect /\ SeveralMatch)
    => /\ pc = "done" => outcome = "ok"
       /\ OnIndexPath => StackPages \subseteq Subtree(MatchingIndexes[1].rootpage)

\* ------------------------------------------------------- the bounded scan

\* the pages of the B-tree of table t
TablePages == Subtree(db.schema[1].rootpage)

\* page c is the child of the i-th cell of interior table page p, or with
\* i = Len(cells) + 1 its right-most child
IsChild(p, i, c) ==
  /\ db.pages[p].type = "InteriorTable"
  /\ \/ i <= Len(db.pages[p].cells) /\ db.pages[p].cells[i].child = c
     \/ i = Len(db.pages[p].cells) + 1 /\ db.pages[p].right = c

\* row id r lies in the key range of the i-th child of p: above the previous cell's
\* key and, but for the right-most child, at most this cell's key
InChildRange(p, i, r) ==
  /\ i > 1 => r > db.pages[p].cells[i - 1].key
  /\ i <= Len(db.pages[p].cells) => r <= db.pages[p].cells[i].key

\* the pages of the table the scan has read or holds in its work list
ScanReached == (StackPages \cup Range(visited)) \cap TablePages

\* C23: during a scan bounded by the row ids R of an index probe, a child of an
\* interior table page, the right-most one included, is visited only if at least
\* one element of R lies in that child's key range
C23_BoundedScanPrunes ==
  (WellFormed /\ InDialect /\ row_ids.some)
    => \A c \in ScanReached : \A p \in TablePages :
         \A i \in 1..(Len(db.pages[p].cells) + 1) :
         IsChild(p, i, c)
           => \E k \in 1..Len(row_ids.ids) : InChildRange(p, i, row_ids.ids[k])

\* the index probe has returned its row ids to the table scan
ProbeReturned == row_ids.some /\ pc \in {"scan", "by_row_ids"}

\* C24: the list of row ids an index probe returns is sorted ascending, for every
\* index tree and every key
C24_ProbeRowIdsSorted ==
  (WellFormed /\ InDialect /\ ProbeReturned)
    => \A i \in 1..(Len(row_ids.ids) - 1) : row_ids.ids[i] <= row_ids.ids[i + 1]

\* ------------------------------------------------- the page decoder of db.rs

\* the interior table pages of the file
InteriorTablePages == {p \in 1..Len(db.pages) : db.pages[p].type = "InteriorTable"}

\* the keys of the cells stored in page p
StoredKeys(p) == {db.pages[p].cells[i].key : i \in 1..Len(db.pages[p].cells)}

\* C26: decoding an interior table page of n cells exposes n + 1 cells in ascending
\* order of key; the first n are the stored cells and the last is the sentinel, whose
\* child is the right-most pointer and whose key is at least every stored key
C26_InteriorTableCells ==
  \A p \in InteriorTablePages :
    LET n == Len(db.pages[p].cells)
        cells == PageFromBytes(db.pages[p]).cells
    IN /\ Len(cells) = n + 1
       /\ \A i \in 1..n : cells[i].left_ptr <= cells[i + 1].left_ptr
       /\ {cells[i].left_ptr : i \in 1..n} = StoredKeys(p)
       /\ cells[n + 1].left_ptr = U64Max
       /\ cells[n + 1].child_page = db.pages[p].right - 1

\* process_sql has decoded an interior table page of two cells that lie in the page
\* in ascending order of key, and has gone on to its children
C26_Witness ==
  /\ query.impl = "db" /\ pc = "done" /\ outcome = "ok"
  /\ \E k \in 1..Len(visited) :
       /\ visited[k] \in InteriorTablePages
       /\ Len(db.pages[visited[k]].cells) = 2
       /\ db.pages[visited[k]].cells[1].off < db.pages[visited[k]].cells[2].off
       /\ db.pages[visited[k]].right \in Range(visited)

\* the interior pages of the file
InteriorPages ==
  {p \in 1..Len(db.pages) : db.pages[p].type \in {"InteriorTable", "InteriorIndex"}}

\* the on-disk numbers of the children of page p: its cells' and its right-most
OnDiskChildren(p) ==
  {db.pages[p].cells[i].child : i \in 1..Len(db.pages[p].cells)} \cup {db.pages[p].right}

\* the page numbers the decoder exposes for page p
ExposedChildren(p) ==
  LET cells == PageFromBytes(db.pages[p]).cells
  IN {cells[i].child_page : i \in 1..Len(cells)}

\* the pages of the B-trees of the schema, and the schema page
SchemaPages ==
  {1} \cup UNION {Subtree(db.schema[k].rootpage) : k \in 1..Len(db.schema)}

\* C27: the decoder and the page cache number the pages alike: every child page
\* number the decoder exposes is the on-disk number minus one, and the cache reads
\* page index i at file offset i * page_size, so that an exposed child number given
\* to the cache yields the child page itself
C27_PageNumbering ==
  /\ \A p \in InteriorPages :
       /\ {c + 1 : c \in ExposedChildren(p)} = OnDiskChildren(p)
       /\ {PageAt(FileOffset(c)) : c \in ExposedChildren(p)}
            = {db.pages[k] : k \in OnDiskChildren(p)}
  /\ (query.impl = "db" /\ WellFormed /\ InDialect)
       => (StackPages \cup Range(visited)) \subseteq SchemaPages

\* process_sql has gone from an interior table page to one of its children through
\* the page cache
C27_Witness ==
  /\ query.impl = "db" /\ pc = "scan" /\ Len(visited) >= 3
  /\ visited[Len(visited) - 1] \in InteriorTablePages
  /\ visited[Len(visited)] \in OnDiskChildren(visited[Len(visited) - 1])

\* ------------------------------------------------------------ the page cache

\* the slots of the page cache
Slots == IF input.kind = "cache" THEN DOMAIN decoded.pages ELSE {}

\* C25: once page(n) has succeeded, slot n stays Loaded with the same page and the
\* file is never read for it again: every later page(n) succeeds, returns that page
\* and neither seeks nor reads; a slot that was never requested stays Unloaded
C25_PageCacheRetention ==
  /\ [](\A n \in Slots :
          /\ n \notin decoded.requested => decoded.pages[n] = Unloaded
          /\ decoded.pages[n].state = "Loaded" => decoded.reads[n] = 1
          /\ (decoded.last.index = n /\ decoded.last.ok)
               => decoded.last.page = decoded.pages[n].page)
  /\ [][\A n \in Slots :
          decoded.pages[n].state = "Loaded"
            => /\ decoded'.pages[n] = decoded.pages[n]
               /\ decoded'.reads[n] = decoded.reads[n]
               /\ decoded'.last.index = n
                    => /\ decoded'.last.ok /\ ~decoded'.last.read
                       /\ decoded'.last.page = decoded.pages[n].page]_vars

\* a page was loaded by one call, a later call for it was served from its slot, and
\* another slot was never requested
C25_Witness ==
  /\ input.kind = "cache"
  /\ decoded.last.ok /\ ~decoded.last.read
  /\ decoded.pages[decoded.last.index].state = "Loaded"
  /\ decoded.reads[decoded.last.index] = 1
  /\ \E n \in Slots : n \notin decoded.requested /\ decoded.pages[n] = Unloaded

\* ------------------------------------------------------ cell pointer validation

\* the pointer array holds an offset below the start of the cell content area, or at
\* or after the end of the page
BadPointer ==
  \E i \in 1..Len(input.offsets) :
    input.offsets[i] < input.start \/ input.offsets[i] >= input.page_len

\* C28: a page whose cell pointer array holds an offset below the start of the cell
\* content area or at or after the page size ends with an error value: no cell is
\* returned and the decoder does not panic
C28_BadCellPointerIsAnError ==
  (input.kind = "pointers" /\ decoded.status = "pointers" /\ BadPointer)
    => decoded.result = "err"

\* ------------------------------------------------------------- termination

\* the children of the pages of S
KidsOf(S) == UNION {OnDiskChildren(p) \ {0} : p \in S}

\* S with the pages reached from it in at most n steps
RECURSIVE Closure(_, _)
Closure(S, n) == IF n = 0 THEN S ELSE Closure(S \cup KidsOf(S), n - 1)

\* the pages below page p
Descendants(p) == Closure(KidsOf({p}), Len(db.pages))

\* the page graph below the roots of the schema has no cycle
Acyclic ==
  \A k \in 1..Len(db.schema) :
    \A p \in {db.schema[k].rootpage} \cup Descendants(db.schema[k].rootpage) :
      p \notin Descendants(p)

\* the pages taken from the work lists so far: the schema page is read outside them
WorkListTakes == SelectSeq(visited, LAMBDA p : p # 1)

\* no page was taken from a work list twice
NoPageTakenTwice ==
  \A i, j \in 1..Len(WorkListTakes) : i # j => WorkListTakes[i] # WorkListTakes[j]

\* C29: on a file whose page graph below the table root and the index root has no
\* cycle the query terminates, with its work list empty when it returns its rows,
\* and each page is taken from the work list at most once
C29_ScanTerminates ==
  Acyclic => /\ <>(pc = "done")
             /\ [](Returned => Len(stack) = 0)
             /\ []NoPageTakenTwice

\* ------------------------------------------------ the local payload arithmetic

\* Cell::parse has been applied to a cell whose payload fits in the page
LocalCellParsed ==
  /\ input.kind = "cell"
  /\ decoded # NoDecoded
  /\ decoded.by = "Cell::parse"
  /\ input.payload_size <= MaxLocal(input.ty, input.usable_page_size)

\* C30: the local-payload arithmetic of Cell::parse never goes below zero:
\* payload_size - M is evaluated only when it is non-negative, so a cell whose
\* payload fits in the page is parsed without an unsigned underflow
C30_NoUnderflowInCellParse ==
  LocalCellParsed => decoded.status = "ok"

====
